---------------------------- MODULE Spec2Model ----------------------------
(***************************************************************************)
(* ChameleonDB: mutation validation and safety guards, mutation builders,  *)
(* query materialization (Executor.Execute) and the schema merger with     *)
(* source-line provenance.                                                 *)
(*                                                                         *)
(* Text is modelled as a sequence of one-character strings, so that the    *)
(* code's splitting, joining and line counting are computed, not assumed.  *)
(* Go's map iteration order is unspecified: wherever the code's result     *)
(* depends on it, the model offers every result an order can produce.      *)
(***************************************************************************)
EXTENDS Integers, Sequences, FiniteSets, TLC

VARIABLES
    db,       \* the DeleteBuilder
    dbRet,    \* the last method called on db and what it returned
    dbCalls,  \* the DeleteBuilder methods called so far
    ub,       \* the UpdateBuilder
    ubRet,    \* the last method called on ub and what it returned
    ib,       \* the InsertBuilder
    ibRet,    \* the last method called on ib and what it returned
    qb,       \* the QueryBuilder handed to Executor.Execute: its include paths
    conn,     \* the Connector: whether its pool is open
    ctx,      \* the context of the Execute call: "live" or "cancelled"
    ex,       \* the frame of the running Executor.Execute
    sent,     \* the round-trips made so far: the query sent and the database's answer
    exRet,    \* what Executor.Execute returned
    mg,       \* the file names and contents handed to SimpleMerger.Merge, and its result
    vd,       \* the merged text handed to SimpleMerger.Validate, and its result
    qs,       \* the QueryBuilder objects of a chain of builder calls, and the pointers the calls returned
    fc,       \* one provided field and value, and what the validators said of it
    ch,       \* a chain of Set and Filter calls on an InsertBuilder and an UpdateBuilder
    ld,       \* the schema paths given to a FileLoader and what LoadAll returned
    em,       \* a compiler error against the merged text, the line map, and the message surfaced
    rg,       \* the registered mutation factory and the calls made to the registry
    cl,       \* an error handed to IsSafetyError and IsConstraintError, and their answers
    mr,       \* one run of the migrate command: its flags, what its steps meet, and what it did
    en,       \* an Engine: its connector, its executor, the pools of the connectors made, and the calls so far
    jl        \* a journal Logger: its two mutexes, the day's log file, index.json, and the callers' positions

mutVars == <<db, dbRet, dbCalls, ub, ubRet, ib, ibRet>>

exVars == <<qb, conn, ctx, ex, sent, exRet>>

mergeVars == <<mg>>

\* the subsystems modelled as one call each
restVars == <<vd, qs, fc, ch, ld, em, rg, cl, mr, en, jl>>

notMutVars == <<exVars, mergeVars, restVars>>

notExVars == <<mutVars, mergeVars, restVars>>

notMergeVars == <<mutVars, exVars, restVars>>

vars == <<db, dbRet, dbCalls, ub, ubRet, ib, ibRet, qb, conn, ctx, ex, sent, exRet, mg, vd, qs, fc, ch, ld, em, rg, cl, mr, en, jl>>

(***************************************************************************)
(* Bounds of the model.                                                    *)
(***************************************************************************)
\* most keys a builder's filters map holds in the model
MaxFilters == 2

\* most keys a builder's values / updates map holds in the model
MaxSets == 2

\* most include paths of a query in the model
MaxIncludes == 4

\* most files handed to one merge in the model
MaxFiles == 2

\* most characters of a schema file in the model
MaxContentLen == 3

\* most pieces of a merged text handed to Validate in the model
MaxChunks == 4

\* most schema paths of a FileLoader in the model
MaxPaths == 2

\* most calls made to the mutation-factory registry in the model
MaxRegistryCalls == 4

\* most calls made on an Engine in the model
MaxEngineCalls == 4

\* goroutines that call one journal Logger at the same time
NumCallers == 2

\* most QueryBuilder objects of a chain of builder calls in the model
MaxBuilders == 2

\* most calls of a chain of builder calls in the model
MaxCalls == 3

(***************************************************************************)
(* Text helpers.                                                           *)
(***************************************************************************)
\* all orders in which the elements of a finite set can be enumerated
Orders(S) == {o \in [1..Cardinality(S) -> S] : \A i, j \in 1..Cardinality(S) : o[i] = o[j] => i = j}

RECURSIVE Flatten(_)
\* the concatenation of a sequence of texts
Flatten(ss) == IF ss = <<>> THEN <<>> ELSE Head(ss) \o Flatten(Tail(ss))

RECURSIVE Join(_, _)
\* strings.Join
Join(ss, sep) ==
    IF ss = <<>> THEN <<>>
    ELSE IF Len(ss) = 1 THEN Head(ss)
    ELSE Head(ss) \o sep \o Join(Tail(ss), sep)

\* %d of a small natural number
Itoa(n) ==
    LET digit == <<"0", "1", "2", "3", "4", "5", "6", "7", "8", "9">>
    IN  IF n < 10 THEN <<digit[n + 1]>> ELSE <<digit[(n \div 10) + 1], digit[(n % 10) + 1]>>

\* the upper-case letters of the model's alphabet and their lower-case forms
LowerOf == [c \in {"A", "E", "I", "L", "M", "N", "O", "U"} |->
              CASE c = "A" -> "a" [] c = "E" -> "e" [] c = "I" -> "i" [] c = "L" -> "l"
                [] c = "M" -> "m" [] c = "N" -> "n" [] c = "O" -> "o" [] c = "U" -> "u"]

\* strings.ToLower
ToLower(s) == [i \in 1..Len(s) |-> IF s[i] \in DOMAIN LowerOf THEN LowerOf[s[i]] ELSE s[i]]

\* strings.Contains
Contains(s, sub) ==
    \E k \in 0..(Len(s) - Len(sub)) : \A i \in 1..Len(sub) : s[k + i] = sub[i]

RECURSIVE SplitFrom(_, _, _, _, _)
SplitFrom(s, sep, i, current, result) ==
    IF i > Len(s)
    THEN IF current # <<>> THEN Append(result, current) ELSE result
    ELSE IF s[i] = sep
         THEN SplitFrom(s, sep, i + 1, <<>>,
                        IF current # <<>> THEN Append(result, current) ELSE result)
         ELSE SplitFrom(s, sep, i + 1, Append(current, s[i]), result)

\* formatStringSplit: the non-empty pieces of s between separators
formatStringSplit(s, sep) == SplitFrom(s, sep, 1, <<>>, <<>>)

\* strings.Split(s, sep)[0]: the text before the first separator (all of s if none)
SplitHead(s, sep) ==
    IF \E i \in 1..Len(s) : s[i] = sep
    THEN LET first == CHOOSE i \in 1..Len(s) : s[i] = sep /\ \A j \in 1..(i - 1) : s[j] # sep
         IN  SubSeq(s, 1, first - 1)
    ELSE s

\* fmt.Sprintf("%s:%s", field, op)
FilterKey(field, op) == field \o <<":">> \o op

\* a Go map as a function; m[k] = v
MapPut(m, k, v) == [x \in (DOMAIN m) \cup {k} |-> IF x = k THEN v ELSE m[x]]

EmptyMap == [x \in {} |-> 0]

(***************************************************************************)
(* Values (interface{}) handed to Set and Filter.                          *)
(***************************************************************************)
NilV == [kind |-> "nil", s |-> <<>>, n |-> 0]

StrV(s) == [kind |-> "string", s |-> s, n |-> 0]

IntV(n) == [kind |-> "int", s |-> <<>>, n |-> n]

\* a bool; n is 1 for true
BoolV(b) == [kind |-> "bool", s |-> <<>>, n |-> IF b THEN 1 ELSE 0]

\* a float64 with the integral value n
FloatV(n) == [kind |-> "float64", s |-> <<>>, n |-> n]

\* a time.Time, n seconds after the epoch
TimeV(n) == [kind |-> "time.Time", s |-> <<>>, n |-> n]

T_uuid == <<"5","5","0","e","8","4","0","0","-","e","2","9","b","-","4","1","d","4","-",
            "a","7","1","6","-","4","4","6","6","5","5","4","4","0","0","0","0">>

T_mail == <<"a", "@", "b", ".", "c">>

T_ana == <<"A", "n", "a">>

\* the texts uuid.Parse accepts, among the texts of the model
ValidUUIDTexts == {T_uuid}

isValidUUID(s) == s \in ValidUUIDTexts

Whitespace == {" ", "\t", "\n"}

\* regexp ^[^@\s]+@[^@\s]+\.[^@\s]+$
isValidEmail(s) ==
    \E i, j \in 1..Len(s) :
        /\ s[i] = "@" /\ s[j] = "."
        /\ 1 < i /\ i + 1 < j /\ j < Len(s)
        /\ \A k \in 1..Len(s) : s[k] \notin Whitespace /\ (s[k] = "@" => k = i)

(***************************************************************************)
(* The schema: the User entity of the builders' tests (testSchema), with   *)
(* the defaulted created_at field of the example schema.                   *)
(***************************************************************************)
E_User == <<"U", "s", "e", "r">>

E_None == <<"N", "o", "n", "e">>

F_id == <<"i", "d">>

F_email == <<"e", "m", "a", "i", "l">>

F_name == <<"n", "a", "m", "e">>

F_age == <<"a", "g", "e">>

F_created == <<"c", "r", "e", "a", "t", "e", "d", "_", "a", "t">>

F_nope == <<"n", "o", "p", "e">>

Field(name, kind, nullable, unique, pk, hasDefault) ==
    [Name |-> name, Kind |-> kind, Nullable |-> nullable, Unique |-> unique,
     PrimaryKey |-> pk, HasDefault |-> hasDefault]

UserFields ==
    [f \in {F_id, F_email, F_name, F_age, F_created} |->
        CASE f = F_id      -> Field(F_id, "UUID", FALSE, FALSE, TRUE, FALSE)
          [] f = F_email   -> Field(F_email, "String", FALSE, TRUE, FALSE, FALSE)
          [] f = F_name    -> Field(F_name, "String", FALSE, FALSE, FALSE, FALSE)
          [] f = F_age     -> Field(F_age, "Int", TRUE, FALSE, FALSE, FALSE)
          [] f = F_created -> Field(F_created, "Timestamp", FALSE, FALSE, FALSE, TRUE)]

\* an entity with a field of each of the six field types, and two String fields whose
\* names contain "email" in other letter cases
E_Product == <<"P", "r", "o", "d", "u", "c", "t">>

F_title == <<"t", "i", "t", "l", "e">>

F_qty == <<"q", "t", "y">>

F_price == <<"p", "r", "i", "c", "e">>

F_active == <<"a", "c", "t", "i", "v", "e">>

F_added == <<"a", "d", "d", "e", "d">>

F_Email == <<"E", "m", "a", "i", "l">>

F_myEMAIL == <<"m", "y", "E", "M", "A", "I", "L">>

ProductFields ==
    [f \in {F_id, F_title, F_qty, F_price, F_active, F_added, F_Email, F_myEMAIL} |->
        CASE f = F_id      -> Field(F_id, "UUID", FALSE, FALSE, TRUE, FALSE)
          [] f = F_title   -> Field(F_title, "String", TRUE, FALSE, FALSE, FALSE)
          [] f = F_qty     -> Field(F_qty, "Int", TRUE, FALSE, FALSE, FALSE)
          [] f = F_price   -> Field(F_price, "Decimal", TRUE, FALSE, FALSE, FALSE)
          [] f = F_active  -> Field(F_active, "Bool", TRUE, FALSE, FALSE, FALSE)
          [] f = F_added   -> Field(F_added, "Timestamp", TRUE, FALSE, FALSE, FALSE)
          [] f = F_Email   -> Field(F_Email, "String", TRUE, FALSE, FALSE, FALSE)
          [] f = F_myEMAIL -> Field(F_myEMAIL, "String", TRUE, FALSE, FALSE, FALSE)]

Schema ==
    [e \in {E_User, E_Product} |->
        [Name |-> e, Fields |-> IF e = E_User THEN UserFields ELSE ProductFields]]

\* Schema.GetEntity: whether an entity of that name exists
HasEntity(name) == \E e \in DOMAIN Schema : Schema[e].Name = name

GetEntity(name) == Schema[CHOOSE e \in DOMAIN Schema : Schema[e].Name = name]

(***************************************************************************)
(* Errors of the validator.                                                *)
(***************************************************************************)
Err(type, detail, field) == [type |-> type, detail |-> detail, field |-> field]

NoErr == Err("nil", "", <<>>)

UnknownEntityError(entity) == Err("UnknownEntityError", "", entity)

UnknownFieldError(field) == Err("UnknownFieldError", "", field)

SafetyError(operation) == Err("SafetyError", operation, <<>>)

ConstraintError(type, field) == Err("ConstraintError", type, field)

NotNullError(field) == Err("NotNullError", "", field)

FieldFormatError(field, format) == Err("FieldFormatError", format, field)

TypeMismatchError(field, expected) == Err("TypeMismatchError", expected, field)


(***************************************************************************)
(* The validator (engine/validation.go). A validation whose result depends *)
(* on the order a map is ranged over is the SET of errors it may return;   *)
(* {NoErr} is the validation that passes.                                  *)
(***************************************************************************)
\* validateFieldType
validateFieldType(field, fieldName, value) ==
    IF value.kind = "nil"
    THEN IF field.Nullable THEN NoErr ELSE NotNullError(fieldName)
    ELSE IF field.Kind = "UUID"
         THEN IF value.kind # "string" \/ ~isValidUUID(value.s)
              THEN FieldFormatError(fieldName, "UUID")
              ELSE NoErr
         ELSE IF field.Kind = "String"
              THEN IF value.kind # "string"
                   THEN TypeMismatchError(fieldName, "string")
                   ELSE NoErr
              ELSE NoErr

\* a variant of validateFieldFormat that looks for "email" in the name as it is written
formatCaseSensitive(fieldName, value) ==
    IF value.kind # "string" \/ value.s = <<>>
    THEN NoErr
    ELSE IF Contains(fieldName, F_email) /\ ~isValidEmail(value.s)
         THEN FieldFormatError(fieldName, "email")
         ELSE NoErr

\* validateFieldFormat
validateFieldFormat(fieldName, value) ==
    IF value.kind # "string" \/ value.s = <<>>
    THEN NoErr
    ELSE IF Contains(ToLower(fieldName), F_email) /\ ~isValidEmail(value.s)
         THEN FieldFormatError(fieldName, "email")
         ELSE NoErr

\* validateInsertField
validateInsertField(ent, fieldName, value) ==
    IF fieldName \notin DOMAIN ent.Fields
    THEN UnknownFieldError(fieldName)
    ELSE LET field == ent.Fields[fieldName]
             typeErr == validateFieldType(field, fieldName, value)
             formatErr == validateFieldFormat(fieldName, value)
         IN  IF typeErr # NoErr THEN typeErr
             ELSE IF formatErr # NoErr THEN formatErr
             ELSE IF value.kind = "nil" /\ ~field.Nullable THEN NotNullError(fieldName)
             ELSE NoErr

\* a variant of MissingRequired that asks for the primary key as well
MissingWithPrimaryKey(ent, provided) ==
    {f \in DOMAIN ent.Fields :
        /\ ~(ent.Fields[f].Nullable \/ ent.Fields[f].HasDefault)
        /\ ent.Fields[f].Name \notin DOMAIN provided}

\* the fields validateRequiredFields finds missing: not nullable, without default,
\* not the primary key, and not provided
MissingRequired(ent, provided) ==
    {f \in DOMAIN ent.Fields :
        /\ ~(ent.Fields[f].Nullable \/ ent.Fields[f].HasDefault \/ ent.Fields[f].PrimaryKey)
        /\ ent.Fields[f].Name \notin DOMAIN provided}

\* validateRequiredFields: the first missing field in the order of the range
validateRequiredFields(ent, provided) ==
    IF MissingRequired(ent, provided) = {}
    THEN {NoErr}
    ELSE {NotNullError(ent.Fields[f].Name) : f \in MissingRequired(ent, provided)}

\* ValidateInsertInput: the error of the first failing provided field in the order
\* of the range, else the required-field check
ValidateInsertInput(entity, fields) ==
    IF ~HasEntity(entity)
    THEN {UnknownEntityError(entity)}
    ELSE LET ent == GetEntity(entity)
             failing == {f \in DOMAIN fields : validateInsertField(ent, f, fields[f]) # NoErr}
         IN  IF failing # {}
             THEN {validateInsertField(ent, f, fields[f]) : f \in failing}
             ELSE validateRequiredFields(ent, fields)

\* the check of one entry of the updates loop of ValidateUpdateInput
validateUpdateField(ent, fieldName, value) ==
    IF fieldName \notin DOMAIN ent.Fields
    THEN UnknownFieldError(fieldName)
    ELSE IF ent.Fields[fieldName].PrimaryKey
         THEN ConstraintError("primary_key", fieldName)
         ELSE validateFieldType(ent.Fields[fieldName], fieldName, value)

\* ValidateUpdateInput
ValidateUpdateInput(entity, filters, updates) ==
    IF ~HasEntity(entity)
    THEN {UnknownEntityError(entity)}
    ELSE LET ent == GetEntity(entity)
             unknown == {f \in DOMAIN filters : f \notin DOMAIN ent.Fields}
             failing == {f \in DOMAIN updates : validateUpdateField(ent, f, updates[f]) # NoErr}
         IN  IF Cardinality(DOMAIN filters) = 0
             THEN {SafetyError("update_without_filter")}
             ELSE IF unknown # {}
                  THEN {UnknownFieldError(f) : f \in unknown}
                  ELSE IF failing # {}
                       THEN {validateUpdateField(ent, f, updates[f]) : f \in failing}
                       ELSE {NoErr}

\* a variant of ValidateDeleteInput whose guard does not look at forceDeleteAll
DeleteGuardIgnoresForce(entity, filters, forceDeleteAll) ==
    IF ~HasEntity(entity)
    THEN {UnknownEntityError(entity)}
    ELSE IF Cardinality(DOMAIN filters) = 0
         THEN {SafetyError("delete_without_filter")}
         ELSE {NoErr}

\* ValidateDeleteInput
ValidateDeleteInput(entity, filters, forceDeleteAll) ==
    IF ~HasEntity(entity)
    THEN {UnknownEntityError(entity)}
    ELSE IF Cardinality(DOMAIN filters) = 0 /\ ~forceDeleteAll
         THEN {SafetyError("delete_without_filter")}
         ELSE {NoErr}

(***************************************************************************)
(* Mutation builders (pkg/mutation): shared helpers.                       *)
(***************************************************************************)
\* parseFilters: the filters keyed by the first non-empty piece of "field:op"; a key
\* with no piece is dropped, and of two keys with the same first piece the one
\* ranged over last gives the value
parseFilters(filters) ==
    LET kept == {k \in DOMAIN filters : Len(formatStringSplit(k, ":")) > 0}
        name(k) == formatStringSplit(k, ":")[1]
        names == {name(k) : k \in kept}
    IN  {m \in [names -> {filters[k] : k \in kept}] :
            \A f \in names : \E k \in kept : name(k) = f /\ m[f] = filters[k]}

Mutation(type, entity, hasFilter) == [Type |-> type, Entity |-> entity, HasFilter |-> hasFilter]

NoMutation == [Type |-> "nil", Entity |-> <<>>, HasFilter |-> FALSE]

Ret(call, mutation, err) == [call |-> call, mutation |-> mutation, err |-> err]

NoRet == Ret("none", NoMutation, NoErr)

\* the filter conditions of a WHERE clause, `"field"=$i`, numbered from `first` in
\* the order `order` of the range over the filters
filterClauses(order, first) ==
    [i \in 1..Len(order) |->
        <<"\"">> \o SplitHead(order[i], ":") \o <<"\"", "=", "$">> \o Itoa(first + i - 1)]

(***************************************************************************)
(* UpdateBuilder.                                                          *)
(***************************************************************************)
UpdateFilterValues == {StrV(T_mail)}

UpdateFields == {F_id, F_name, F_nope}

UpdateValues == {StrV(T_ana), IntV(30)}

\* NewUpdateBuilder
NewUpdateBuilder(entity) ==
    [entity |-> entity, filters |-> EmptyMap, updates |-> EmptyMap, forceAll |-> FALSE,
     sql |-> <<>>]

\* the SET clauses `"field"=$i`, in the order of the range over the updates
setClauses(order) ==
    [i \in 1..Len(order) |-> <<"\"">> \o order[i] \o <<"\"", "=", "$">> \o Itoa(i)]

\* generateUpdateSQL, for the orders in which updates and filters are ranged over
generateUpdateSQL(b, uorder, forder) ==
    <<"UPDATE ", "\"">> \o ToLower(b.entity) \o <<"\"", " SET ">>
        \o Join(setClauses(uorder), <<", ">>) \o <<" WHERE ">>
        \o Join(filterClauses(forder, Len(uorder) + 1), <<" AND ">>) \o <<" RETURNING *">>

\* ub.filters[key] = value, key the field and the operator
updateFilter(b, field, op, value) ==
    [b EXCEPT !.filters = MapPut(b.filters, FilterKey(field, op), value)]

\* ub.updates[field] = value
updateSet(b, field, value) == [b EXCEPT !.updates = MapPut(b.updates, field, value)]

\* UpdateBuilder.Filter
UB_Filter(field, op, value) ==
    /\ FilterKey(field, op) \in DOMAIN ub.filters
          \/ Cardinality(DOMAIN ub.filters) < MaxFilters
    /\ ub' = updateFilter(ub, field, op, value)
    /\ ubRet' = Ret("Filter", NoMutation, NoErr)
    /\ UNCHANGED <<db, dbRet, dbCalls, ib, ibRet>> /\ UNCHANGED notMutVars

\* UpdateBuilder.Set
UB_Set(field, value) ==
    /\ field \in DOMAIN ub.updates \/ Cardinality(DOMAIN ub.updates) < MaxSets
    /\ ub' = updateSet(ub, field, value)
    /\ ubRet' = Ret("Set", NoMutation, NoErr)
    /\ UNCHANGED <<db, dbRet, dbCalls, ib, ibRet>> /\ UNCHANGED notMutVars

\* UpdateBuilder.ForceUpdateAll
UB_ForceUpdateAll ==
    /\ ub' = [ub EXCEPT !.forceAll = TRUE]
    /\ ubRet' = Ret("ForceUpdateAll", NoMutation, NoErr)
    /\ UNCHANGED <<db, dbRet, dbCalls, ib, ibRet>> /\ UNCHANGED notMutVars

\* the effect of UpdateBuilder.Build on the builder b
UpdateBuild(b, err, uorder, forder) ==
    IF err # NoErr
    THEN [b |-> b, ret |-> Ret("Build", NoMutation, err)]
    ELSE [b |-> [b EXCEPT !.sql = generateUpdateSQL(b, uorder, forder)],
          ret |-> Ret("Build",
                      Mutation("MutationUpdate", b.entity, Cardinality(DOMAIN b.filters) > 0),
                      NoErr)]

\* UpdateBuilder.Build
UB_Build ==
    \E pf \in parseFilters(ub.filters) :
    \E err \in ValidateUpdateInput(ub.entity, pf, ub.updates) :
    \E uorder \in Orders(DOMAIN ub.updates), forder \in Orders(DOMAIN ub.filters) :
        /\ ub' = UpdateBuild(ub, err, uorder, forder).b
        /\ ubRet' = UpdateBuild(ub, err, uorder, forder).ret
        /\ UNCHANGED <<db, dbRet, dbCalls, ib, ibRet>> /\ UNCHANGED notMutVars

\* UpdateBuilder.Exec
UB_Exec ==
    \E pf \in parseFilters(ub.filters) :
    \E err \in ValidateUpdateInput(ub.entity, pf, ub.updates) :
    \E uorder \in Orders(DOMAIN ub.updates), forder \in Orders(DOMAIN ub.filters) :
        /\ IF ub.sql = <<>>
           THEN /\ ub' = UpdateBuild(ub, err, uorder, forder).b
                /\ ubRet' = Ret("Exec", NoMutation, err)
           ELSE /\ ub' = ub
                /\ ubRet' = Ret("Exec", NoMutation, NoErr)
        /\ UNCHANGED <<db, dbRet, dbCalls, ib, ibRet>> /\ UNCHANGED notMutVars

(***************************************************************************)
(* InsertBuilder.                                                          *)
(***************************************************************************)
InsertFields == {F_id, F_email, F_name, F_nope}

InsertValues == {StrV(T_uuid), StrV(T_mail), StrV(T_ana), NilV, IntV(30)}

\* NewInsertBuilder
NewInsertBuilder(entity) == [entity |-> entity, values |-> EmptyMap, sql |-> <<>>]

\* generateInsertSQL, for the order in which the values are ranged over
generateInsertSQL(b, order) ==
    <<"INSERT INTO ", "\"">> \o b.entity \o <<"\"", " (">>
        \o Join([i \in 1..Len(order) |-> <<"\"">> \o order[i] \o <<"\"">>], <<", ">>)
        \o <<") VALUES (">>
        \o Join([i \in 1..Len(order) |-> <<"$">> \o Itoa(i)], <<", ">>)
        \o <<") RETURNING *">>

\* a variant of insertSet that keeps the value a field already has
insertSetOnce(b, field, value) ==
    IF field \in DOMAIN b.values THEN b ELSE [b EXCEPT !.values = MapPut(b.values, field, value)]

\* ib.values[field] = value
insertSet(b, field, value) == [b EXCEPT !.values = MapPut(b.values, field, value)]

\* InsertBuilder.Set
IB_Set(field, value) ==
    /\ field \in DOMAIN ib.values \/ Cardinality(DOMAIN ib.values) < MaxSets
    /\ ib' = insertSet(ib, field, value)
    /\ ibRet' = Ret("Set", NoMutation, NoErr)
    /\ UNCHANGED <<db, dbRet, dbCalls, ub, ubRet>> /\ UNCHANGED notMutVars

\* the effect of InsertBuilder.Build on the builder b
InsertBuild(b, err, order) ==
    IF err # NoErr
    THEN [b |-> b, ret |-> Ret("Build", NoMutation, err)]
    ELSE [b |-> [b EXCEPT !.sql = generateInsertSQL(b, order)],
          ret |-> Ret("Build", Mutation("MutationInsert", b.entity, FALSE), NoErr)]

\* InsertBuilder.Build
IB_Build ==
    \E err \in ValidateInsertInput(ib.entity, ib.values) :
    \E order \in Orders(DOMAIN ib.values) :
        /\ ib' = InsertBuild(ib, err, order).b
        /\ ibRet' = InsertBuild(ib, err, order).ret
        /\ UNCHANGED <<db, dbRet, dbCalls, ub, ubRet>> /\ UNCHANGED notMutVars

\* InsertBuilder.Exec
IB_Exec ==
    \E err \in ValidateInsertInput(ib.entity, ib.values) :
    \E order \in Orders(DOMAIN ib.values) :
        /\ IF ib.sql = <<>>
           THEN /\ ib' = InsertBuild(ib, err, order).b
                /\ ibRet' = Ret("Exec", NoMutation, err)
           ELSE /\ ib' = ib
                /\ ibRet' = Ret("Exec", NoMutation, NoErr)
        /\ UNCHANGED <<db, dbRet, dbCalls, ub, ubRet>> /\ UNCHANGED notMutVars

(***************************************************************************)
(* DeleteBuilder.                                                          *)
(***************************************************************************)
FilterFields == {F_id, F_email, F_nope, <<>>}

FilterOps == {<<"e", "q">>, <<"g", "t">>, <<>>}

FilterValues == {StrV(T_uuid)}

Entities == {E_User, E_None}

\* NewDeleteBuilder
NewDeleteBuilder(entity) ==
    [entity |-> entity, filters |-> EmptyMap, forceDeleteAll |-> FALSE, sql |-> <<>>]

\* generateDeleteSQL, for the order in which the filters are ranged over
generateDeleteSQL(b, order) ==
    <<"DELETE FROM ", "\"">> \o ToLower(b.entity) \o <<"\"", " WHERE ">>
        \o Join(filterClauses(order, 1), <<" AND ">>)

\* DeleteBuilder.Filter
DB_Filter(field, op, value) ==
    /\ FilterKey(field, op) \in DOMAIN db.filters
          \/ Cardinality(DOMAIN db.filters) < MaxFilters
    /\ db' = [db EXCEPT !.filters = MapPut(db.filters, FilterKey(field, op), value)]
    /\ dbRet' = Ret("Filter", NoMutation, NoErr)
    /\ dbCalls' = dbCalls \cup {"Filter"}
    /\ UNCHANGED <<ub, ubRet, ib, ibRet>> /\ UNCHANGED notMutVars

\* DeleteBuilder.ForceDeleteAll
DB_ForceDeleteAll ==
    /\ db' = [db EXCEPT !.forceDeleteAll = TRUE]
    /\ dbRet' = Ret("ForceDeleteAll", NoMutation, NoErr)
    /\ dbCalls' = dbCalls \cup {"ForceDeleteAll"}
    /\ UNCHANGED <<ub, ubRet, ib, ibRet>> /\ UNCHANGED notMutVars

\* a variant of DeleteBuild that renders the SQL before it looks at the validator's error
DeleteBuildRendersFirst(b, pf, err, order) ==
    [b |-> [b EXCEPT !.sql = generateDeleteSQL(b, order)],
     ret |-> IF err # NoErr
             THEN Ret("Build", NoMutation, err)
             ELSE Ret("Build",
                      Mutation("MutationDelete", b.entity, Cardinality(DOMAIN b.filters) > 0),
                      NoErr)]

\* the effect of DeleteBuilder.Build on the builder b: the builder after it and what
\* it returns
DeleteBuild(b, pf, err, order) ==
    IF err # NoErr
    THEN [b |-> b, ret |-> Ret("Build", NoMutation, err)]
    ELSE [b |-> [b EXCEPT !.sql = generateDeleteSQL(b, order)],
          ret |-> Ret("Build",
                      Mutation("MutationDelete", b.entity, Cardinality(DOMAIN b.filters) > 0),
                      NoErr)]

\* DeleteBuilder.Build
DB_Build ==
    \E pf \in parseFilters(db.filters) :
    \E err \in ValidateDeleteInput(db.entity, pf, db.forceDeleteAll) :
    \E order \in Orders(DOMAIN db.filters) :
        /\ db' = DeleteBuild(db, pf, err, order).b
        /\ dbRet' = DeleteBuild(db, pf, err, order).ret
        /\ dbCalls' = dbCalls \cup {"Build"}
        /\ UNCHANGED <<ub, ubRet, ib, ibRet>> /\ UNCHANGED notMutVars

\* DeleteBuilder.Exec: builds when no SQL is rendered yet; execution itself is a TODO
DB_Exec ==
    \E pf \in parseFilters(db.filters) :
    \E err \in ValidateDeleteInput(db.entity, pf, db.forceDeleteAll) :
    \E order \in Orders(DOMAIN db.filters) :
        /\ IF db.sql = <<>>
           THEN /\ db' = DeleteBuild(db, pf, err, order).b
                /\ dbRet' = Ret("Exec", NoMutation, err)
           ELSE /\ db' = db
                /\ dbRet' = Ret("Exec", NoMutation, NoErr)
        /\ dbCalls' = dbCalls \cup {"Exec"}
        /\ UNCHANGED <<ub, ubRet, ib, ibRet>> /\ UNCHANGED notMutVars

\* the builders a specification does not exercise
IdleDelete == db = NewDeleteBuilder(E_User) /\ dbRet = NoRet /\ dbCalls = {}

IdleUpdate == ub = NewUpdateBuilder(E_User) /\ ubRet = NoRet

IdleInsert == ib = NewInsertBuilder(E_User) /\ ibRet = NoRet

(***************************************************************************)
(* The schema merger (pkg/schema): SimpleMerger.Merge.                     *)
(***************************************************************************)
NL == "\n"

\* the characters a schema file of the model is written with
ContentChars == {"a", NL}

\* the schema file names of the model
FileNames == {"a.cham", "b.cham"}

BannerRule == "// =========================================="

RECURSIVE SplitLines(_)
\* strings.Split(s, "\n"): the stretches of s between its newlines
SplitLines(s) ==
    IF \A i \in 1..Len(s) : s[i] # NL
    THEN <<s>>
    ELSE LET i == CHOOSE k \in 1..Len(s) : s[k] = NL /\ \A j \in 1..(k - 1) : s[j] # NL
         IN <<SubSeq(s, 1, i - 1)>> \o SplitLines(SubSeq(s, i + 1, Len(s)))

SourceLine(file, lineNumber) == [File |-> file, LineNumber |-> lineNumber]

MergedSchemaResult(content, lineMap) == [isNil |-> FALSE, Content |-> content, LineMap |-> lineMap]

NilMerged == [isNil |-> TRUE, Content |-> <<>>, LineMap |-> EmptyMap]

NoMergeErr == "nil"

MergeRet(result, err) == [done |-> TRUE, result |-> result, err |-> err]

NotMerged == [done |-> FALSE, result |-> NilMerged, err |-> NoMergeErr]

\* the builder, the line map and the line counter of Merge
MergeState(merged, lineMap, currentMergedLine) ==
    [merged |-> merged, lineMap |-> lineMap, currentMergedLine |-> currentMergedLine]

\* the three banner lines written ahead of a file
writeBanner(st, filename) ==
    MergeState(st.merged \o <<BannerRule, NL, "// From: ", filename, NL, BannerRule, NL>>,
               st.lineMap,
               st.currentMergedLine + 3)

RECURSIVE mergeLines(_, _, _, _)
\* the loop over the lines of one file, from index lineIdx (counted from 0) on
mergeLines(st, filename, lines, lineIdx) ==
    IF lineIdx >= Len(lines)
    THEN st
    ELSE LET line == lines[lineIdx + 1]
         IN IF line = <<>> /\ lineIdx = Len(lines) - 1
            THEN mergeLines(st, filename, lines, lineIdx + 1)
            ELSE mergeLines(
                     MergeState(
                         st.merged \o line \o (IF lineIdx < Len(lines) - 1 THEN <<NL>> ELSE <<>>),
                         MapPut(st.lineMap, st.currentMergedLine, SourceLine(filename, lineIdx + 1)),
                         st.currentMergedLine + 1),
                     filename, lines, lineIdx + 1)

\* what follows the lines of a file: two newlines, and two lines counted
closeFile(st) ==
    MergeState(st.merged \o <<NL, NL>>, st.lineMap, st.currentMergedLine + 2)

RECURSIVE mergeFiles(_, _, _, _)
\* the loop over the files, from the i-th on
mergeFiles(st, filenames, contents, i) ==
    IF i > Len(filenames)
    THEN st
    ELSE mergeFiles(
             closeFile(mergeLines(writeBanner(st, filenames[i]), filenames[i],
                                  SplitLines(contents[i]), 0)),
             filenames, contents, i + 1)

\* SimpleMerger.Merge(filenames, contents)
SimpleMerge(filenames, contents) ==
    IF Len(filenames) # Len(contents)
    THEN MergeRet(NilMerged, "filenames and contents length mismatch")
    ELSE IF Len(filenames) = 0
    THEN MergeRet(NilMerged, "no schema files to merge")
    ELSE LET st == mergeFiles(MergeState(<<>>, EmptyMap, 1), filenames, contents, 1)
         IN MergeRet(MergedSchemaResult(st.merged, st.lineMap), NoMergeErr)

\* a caller hands its file names and contents to Merge
Merge ==
    /\ ~mg.ret.done
    /\ mg' = [mg EXCEPT !.ret = SimpleMerge(mg.filenames, mg.contents)]
    /\ UNCHANGED notMergeVars

\* the texts of at most MaxContentLen characters
Contents == UNION {[1..n -> ContentChars] : n \in 0..MaxContentLen}

MergeInput(filenames, contents) == [filenames |-> filenames, contents |-> contents, ret |-> NotMerged]

IdleMerge == mg = MergeInput(<<>>, <<>>)

(***************************************************************************)
(* The schema merger: SimpleMerger.Validate. The merged text is a sequence *)
(* of tokens: the word entity, one-character tokens, and braces.           *)
(***************************************************************************)
\* the builders, the executor and the merger, which the single-call subsystems leave alone
coreVars == <<mutVars, exVars, mergeVars>>

Digits == {"0", "1", "2", "3", "4", "5", "6", "7", "8", "9"}

\* the tokens of the model that [A-Za-z0-9_] matches
IdentChars == {"entity", "U", "V", "x", "_"} \cup Digits

RECURSIVE RunEnd(_, _, _)
\* the last position of the longest run of tokens of S that starts at p (p - 1: no run)
RunEnd(s, p, S) == IF p <= Len(s) /\ s[p] \in S THEN RunEnd(s, p + 1, S) ELSE p - 1

\* the match of entity\s+([A-Za-z_][A-Za-z0-9_]*)\s*\{ that starts at position p
entityMatchAt(s, p) ==
    LET w1 == RunEnd(s, p + 1, Whitespace)
        n1 == RunEnd(s, w1 + 1, IdentChars)
        w2 == RunEnd(s, n1 + 1, Whitespace)
    IN  IF /\ s[p] = "entity"
           /\ w1 >= p + 1
           /\ n1 >= w1 + 1 /\ s[w1 + 1] \notin Digits
           /\ w2 + 1 <= Len(s) /\ s[w2 + 1] = "{"
        THEN [ok |-> TRUE, name |-> SubSeq(s, w1 + 1, n1), end |-> w2 + 1]
        ELSE [ok |-> FALSE, name |-> <<>>, end |-> p]

RECURSIVE FindAllEntities(_, _)
\* re.FindAllStringSubmatch(merged, -1): the names of the matches, from the left,
\* none overlapping another
FindAllEntities(s, p) ==
    IF p > Len(s)
    THEN <<>>
    ELSE IF entityMatchAt(s, p).ok
         THEN <<entityMatchAt(s, p).name>> \o FindAllEntities(s, entityMatchAt(s, p).end + 1)
         ELSE FindAllEntities(s, p + 1)

\* entityCount: how often each matched name was matched
entityCount(matches) ==
    [name \in {matches[i] : i \in 1..Len(matches)} |->
        Cardinality({i \in 1..Len(matches) : matches[i] = name})]

\* a variant of duplicateNames that lets a name appear twice
namesOverTwice(count) == {name \in DOMAIN count : count[name] > 2}

\* the names the check for duplicates finds
duplicateNames(count) == {name \in DOMAIN count : count[name] > 1}

\* fmt.Sprintf("%s (appears %d times)", entityName, count)
duplicateEntry(entityName, count) == entityName \o <<" (appears ">> \o Itoa(count) \o <<" times)">>

ValidateErr(msg) == [isNil |-> FALSE, msg |-> msg]

NoValidateErr == [isNil |-> TRUE, msg |-> <<>>]

\* the error of the duplicates listed in this order
duplicatesError(count, order) ==
    ValidateErr(<<"duplicate entities found: ">>
                \o Join([i \in 1..Len(order) |-> duplicateEntry(order[i], count[order[i]])], <<", ">>)
                \o <<"\n\nEntity names must be unique across all schema files. ",
                     "Define each entity only once.">>)

\* SimpleMerger.Validate(merged): the errors it may return, one for each order in
\* which the range over entityCount may list the duplicates
SimpleValidate(merged) ==
    LET matches == FindAllEntities(merged, 1)
        count == entityCount(matches)
    IN  IF matches = <<>>
        THEN {ValidateErr(<<"no entities found in schema">>)}
        ELSE IF duplicateNames(count) = {}
             THEN {NoValidateErr}
             ELSE {duplicatesError(count, o) : o \in Orders(duplicateNames(count))}

\* a piece of schema text: whether it declares an entity, the name it declares, its text
Chunk(decl, name, text) == [decl |-> decl, name |-> name, text |-> text]

\* the entity names of the model
EntityNames == {<<"U">>, <<"V">>, <<"U", "2">>}

\* the declarations of the model: entity <Name> {, with the white space the pattern allows
DeclChunks ==
    {Chunk(TRUE, n, <<"entity", " ">> \o n \o <<"{">>) : n \in EntityNames}
        \cup {Chunk(TRUE, n, <<"entity", NL, "\t">> \o n \o <<" ", "{">>) : n \in EntityNames}

\* pieces that declare nothing: a closing brace, the word entity run into a name, a
\* name that starts with a digit
OtherChunks ==
    {Chunk(FALSE, <<>>, <<"}">>),
     Chunk(FALSE, <<>>, <<"entity", "U", "{">>),
     Chunk(FALSE, <<>>, <<"entity", " ", "2", "U", "{">>)}

\* the pieces of the text and the result of Validate
ValidateInput(chunks) == [chunks |-> chunks, done |-> FALSE, err |-> NoValidateErr]

\* the merged text: the pieces one after the other
MergedText(chunks) == Flatten([i \in 1..Len(chunks) |-> chunks[i].text])

IdleValidate == vd = ValidateInput(<<>>)

\* merger.Validate(mergedSchema)
Validate ==
    /\ ~vd.done
    /\ \E err \in SimpleValidate(MergedText(vd.chunks)) :
          vd' = [vd EXCEPT !.done = TRUE, !.err = err]
    /\ UNCHANGED <<coreVars, qs, fc, ch, ld, em, rg, cl, mr, en, jl>>

(***************************************************************************)
(* The query builder (Engine.Query and the QueryBuilder methods). A        *)
(* QueryBuilder is an object on the heap; every method returns a pointer.  *)
(***************************************************************************)
\* splitPath: the non-empty pieces of path between dots
splitPath(path) == SplitFrom(path, ".", 1, <<>>, <<>>)

\* parseFieldPath
parseFieldPath(path) == [Segments |-> splitPath(path)]

\* goOpToRust: the operator's name for the generator, the operator itself when unknown
goOpToRust(op) ==
    CASE op = "eq" -> "Eq" [] op = "neq" -> "Neq" [] op = "gt" -> "Gt" [] op = "gte" -> "Gte"
      [] op = "lt" -> "Lt" [] op = "lte" -> "Lte" [] op = "like" -> "Like" [] op = "in" -> "In"
      [] OTHER -> op

\* goValueToFilter
goValueToFilter(value) ==
    CASE value.kind = "string" -> [tag |-> "String", v |-> value]
      [] value.kind = "int" -> [tag |-> "Int", v |-> value]
      [] value.kind = "nil" -> [tag |-> "Null", v |-> NilV]

\* a *uint64 that is nil
NilUint == [isNil |-> TRUE, n |-> 0]

\* &n
PtrUint(n) == [isNil |-> FALSE, n |-> n]

QueryJSON(entity, filters, includes, orderBy, limit, offset) ==
    [Entity |-> entity, Filters |-> filters, Includes |-> includes, OrderBy |-> orderBy,
     Limit |-> limit, Offset |-> offset]

\* the query of Engine.Query(entity)
NewQuery(entity) == QueryJSON(entity, <<>>, <<>>, <<>>, NilUint, NilUint)

\* what the methods do to the query of their receiver
addFilter(q, field, op, value) ==
    [q EXCEPT !.Filters = Append(@, [Field |-> parseFieldPath(field), Op |-> goOpToRust(op),
                                     Value |-> goValueToFilter(value)])]

addInclude(q, path) == [q EXCEPT !.Includes = Append(@, [Path |-> splitPath(path)])]

addOrderBy(q, field, direction) ==
    [q EXCEPT !.OrderBy = Append(@, [Field |-> field,
                                     Direction |-> IF direction = "desc" THEN "Desc" ELSE "Asc"])]

setLimit(q, n) == [q EXCEPT !.Limit = PtrUint(n)]

setOffset(q, n) == [q EXCEPT !.Offset = PtrUint(n)]

\* a pointer a call returned, with the query its builder described at that moment
Returned(ref, q) == [ref |-> ref, then |-> q]

QueryFields == {<<"email">>, <<"orders", ".", "total">>}

QueryOps == {"eq", "gt", "between"}

QueryValues == {StrV(T_mail), IntV(30)}

QueryIncludes == {<<"orders">>, <<"orders", ".", "items">>}

Directions == {"asc", "desc", "down"}

Limits == {1, 10}

\* Engine.Query(entity): a new QueryBuilder
Q_Query ==
    /\ Len(qs.heap) < MaxBuilders /\ Len(qs.held) < MaxCalls
    /\ qs' = [heap |-> Append(qs.heap, NewQuery("User")),
              held |-> Append(qs.held, Returned(Len(qs.heap) + 1, NewQuery("User")))]
    /\ UNCHANGED <<coreVars, vd, fc, ch, ld, em, rg, cl, mr, en, jl>>

\* a method called through the pointer r that changes the query to q and returns r
QueryCall(r, q) ==
    /\ Len(qs.held) < MaxCalls
    /\ qs' = [heap |-> [qs.heap EXCEPT ![r] = q],
              held |-> Append(qs.held, Returned(r, q))]
    /\ UNCHANGED <<coreVars, vd, fc, ch, ld, em, rg, cl, mr, en, jl>>

\* the pointers the caller holds
HeldRefs == {qs.held[i].ref : i \in 1..Len(qs.held)}

Q_Filter(r, field, op, value) == QueryCall(r, addFilter(qs.heap[r], field, op, value))

Q_Include(r, path) == QueryCall(r, addInclude(qs.heap[r], path))

Q_OrderBy(r, field, direction) == QueryCall(r, addOrderBy(qs.heap[r], field, direction))

Q_Limit(r, n) == QueryCall(r, setLimit(qs.heap[r], n))

Q_Offset(r, n) == QueryCall(r, setOffset(qs.heap[r], n))

IdleQuery == qs = [heap |-> <<>>, held |-> <<>>]

(***************************************************************************)
(* One provided field: ValidateInsertInput and ValidateUpdateInput of an   *)
(* input that provides one field with one value.                           *)
(***************************************************************************)
\* texts that are not email-shaped: no dot in the domain, two @, whitespace
T_nodot == <<"a", "@", "b">>

T_twoat == <<"a", "@", "@", "b", ".", "c">>

T_blank == <<"a", " ", "@", "b", ".", "c">>

FieldEntities == {E_User, E_Product}

FieldNames == (DOMAIN UserFields) \cup (DOMAIN ProductFields) \cup {F_nope}

FieldValueSet ==
    {NilV, StrV(<<>>), StrV(T_uuid), StrV(T_mail), StrV(T_ana), StrV(T_nodot),
     StrV(T_twoat), StrV(T_blank), IntV(30), BoolV(TRUE), FloatV(2), TimeV(0)}

\* the filters of the update: one filter on a field of the entity
FieldFilter == MapPut(EmptyMap, F_id, StrV(T_uuid))

FieldCheck(entity, field, value) ==
    [entity |-> entity, field |-> field, value |-> value, done |-> FALSE,
     insert |-> {}, update |-> {}]

\* v.ValidateInsertInput(entity, {field: value}) and
\* v.ValidateUpdateInput(entity, filters, {field: value}) with the default validator
ValidateField ==
    /\ ~fc.done
    /\ fc' = [fc EXCEPT
                 !.done = TRUE,
                 !.insert = ValidateInsertInput(fc.entity, MapPut(EmptyMap, fc.field, fc.value)),
                 !.update = ValidateUpdateInput(fc.entity, FieldFilter,
                                                MapPut(EmptyMap, fc.field, fc.value))]
    /\ UNCHANGED <<coreVars, vd, qs, ch, ld, em, rg, cl, mr, en, jl>>

IdleFields == fc = FieldCheck(<<>>, <<>>, NilV)

(***************************************************************************)
(* A chain of Set and Filter calls on one InsertBuilder and one            *)
(* UpdateBuilder, with the calls as they were made.                        *)
(***************************************************************************)
ChainFields == {F_name, F_email}

ChainOps == {<<"e", "q">>, <<"g", "t">>}

ChainValues == {StrV(T_ana), StrV(T_mail)}

\* a call of the chain; op is empty for Set
ChainCall(method, field, op, value) ==
    [method |-> method, field |-> field, op |-> op, value |-> value]

NewChain ==
    [log |-> <<>>, ib |-> NewInsertBuilder(E_User), ub |-> NewUpdateBuilder(E_User)]

\* builder.Set(field, value) on the InsertBuilder
Chain_InsertSet(field, value) ==
    /\ Len(ch.log) < MaxCalls
    /\ ch' = [ch EXCEPT !.log = Append(@, ChainCall("InsertBuilder.Set", field, <<>>, value)),
                        !.ib = insertSet(@, field, value)]
    /\ UNCHANGED <<coreVars, vd, qs, fc, ld, em, rg, cl, mr, en, jl>>

\* builder.Set(field, value) on the UpdateBuilder
Chain_UpdateSet(field, value) ==
    /\ Len(ch.log) < MaxCalls
    /\ ch' = [ch EXCEPT !.log = Append(@, ChainCall("UpdateBuilder.Set", field, <<>>, value)),
                        !.ub = updateSet(@, field, value)]
    /\ UNCHANGED <<coreVars, vd, qs, fc, ld, em, rg, cl, mr, en, jl>>

\* builder.Filter(field, op, value) on the UpdateBuilder
Chain_UpdateFilter(field, op, value) ==
    /\ Len(ch.log) < MaxCalls
    /\ ch' = [ch EXCEPT !.log = Append(@, ChainCall("UpdateBuilder.Filter", field, op, value)),
                        !.ub = updateFilter(@, field, op, value)]
    /\ UNCHANGED <<coreVars, vd, qs, fc, ld, em, rg, cl, mr, en, jl>>

IdleChain == ch = NewChain

(***************************************************************************)
(* The schema file loader: FileLoader.LoadAll.                             *)
(***************************************************************************)
\* the names of the entries of a schema directory, in the order of sort.Strings
DirEntries == <<"a.cham", "b.cham", "notes.txt">>

\* filepath.Ext of an entry
Ext(name) == IF name = "notes.txt" THEN ".txt" ELSE ".cham"

\* a schema path: a directory with some entries, or a path os.ReadDir fails on
Dir(exists, entries) == [exists |-> exists, entries |-> entries]

Dirs == {Dir(FALSE, {})} \cup {Dir(TRUE, s) : s \in SUBSET {DirEntries[k] : k \in DOMAIN DirEntries}}

\* the text os.ReadFile gives for an entry of the i-th schema path
FileText(i, name) == <<"path ">> \o Itoa(i) \o <<": ", name>>

RECURSIVE SortedFrom(_, _)
\* the names of a set in the order of sort.Strings, from the k-th entry name on
SortedFrom(names, k) ==
    IF k > Len(DirEntries) THEN <<>>
    ELSE (IF DirEntries[k] \in names THEN <<DirEntries[k]>> ELSE <<>>)
            \o SortedFrom(names, k + 1)

\* findSchemaFiles: the .cham entries of a directory, sorted
findSchemaFiles(dir) == SortedFrom({n \in dir.entries : Ext(n) = ".cham"}, 1)

RECURSIVE sortStrings(_, _)
\* sort.Strings of a list of names, from the k-th entry name on
sortStrings(s, k) ==
    IF k > Len(DirEntries) THEN <<>>
    ELSE SelectSeq(s, LAMBDA n : n = DirEntries[k]) \o sortStrings(s, k + 1)

LoadErr(msg, path) == [msg |-> msg, path |-> path]

NoLoadErr == LoadErr("nil", 0)

LoadRet(filenames, contents, err) ==
    [done |-> TRUE, filenames |-> filenames, contents |-> contents, err |-> err]

NotLoaded == [done |-> FALSE, filenames |-> <<>>, contents |-> <<>>, err |-> NoLoadErr]

RECURSIVE loadFrom(_, _, _, _)
\* the loop of LoadAll over the schema paths, from the i-th on
loadFrom(paths, i, filenames, contents) ==
    IF i > Len(paths)
    THEN IF Len(filenames) = 0
         THEN LoadRet(<<>>, <<>>, LoadErr("no schema files found", 0))
         ELSE LoadRet(sortStrings(filenames, 1), contents, NoLoadErr)
    ELSE IF ~paths[i].exists
         THEN LoadRet(<<>>, <<>>, LoadErr("failed to find schema files", i))
         ELSE LET files == findSchemaFiles(paths[i])
              IN  loadFrom(paths, i + 1, filenames \o files,
                           contents \o [k \in 1..Len(files) |-> FileText(i, files[k])])

FileLoader(schemaPaths) == [schemaPaths |-> schemaPaths, ret |-> NotLoaded]

\* FileLoader.LoadAll
LoadAll ==
    /\ ~ld.ret.done
    /\ ld' = [ld EXCEPT !.ret = loadFrom(ld.schemaPaths, 1, <<>>, <<>>)]
    /\ UNCHANGED <<coreVars, vd, qs, fc, ch, em, rg, cl, mr, en, jl>>

IdleLoader == ld = FileLoader(<<>>)

(***************************************************************************)
(* The migrate command: a parse error of the merged schema is mapped back  *)
(* to a source file (tryMapErrorToSource).                                 *)
(***************************************************************************)
\* the offsets of the nearest-line search
MaxOffset == 5

\* strconv.Atoi of a run of digits
Atoi(ds) ==
    LET val == [c \in Digits |->
                  CASE c = "0" -> 0 [] c = "1" -> 1 [] c = "2" -> 2 [] c = "3" -> 3
                    [] c = "4" -> 4 [] c = "5" -> 5 [] c = "6" -> 6 [] c = "7" -> 7
                    [] c = "8" -> 8 [] c = "9" -> 9]
    IN  IF Len(ds) = 1 THEN val[ds[1]] ELSE 10 * val[ds[1]] + val[ds[2]]

\* %d of a small integer
FmtInt(n) == IF n < 0 THEN <<"-">> \o Itoa(0 - n) ELSE Itoa(n)

\* the first match of a pattern in a message: the digits of its group, or no match.
\* "line (\d+)" is the token "line " and the digits after it; "-->.*?:(\d+):" is the
\* token "--> ", the first ":" after it that digits and a ":" follow, and those digits
NoMatch == <<>>

matchLine(errMsg) ==
    LET at == {i \in 1..(Len(errMsg) - 1) : errMsg[i] = "line " /\ errMsg[i + 1] \in Digits}
    IN  IF at = {} THEN NoMatch
        ELSE LET i == CHOOSE i \in at : \A j \in at : i <= j
             IN  SubSeq(errMsg, i + 1, RunEnd(errMsg, i + 1, Digits))

matchArrow(errMsg) ==
    LET at == {i \in 1..(Len(errMsg) - 1) :
                  /\ errMsg[i] = ":" /\ errMsg[i + 1] \in Digits
                  /\ \E a \in 1..(i - 1) : errMsg[a] = "--> "
                  /\ RunEnd(errMsg, i + 1, Digits) < Len(errMsg)
                  /\ errMsg[RunEnd(errMsg, i + 1, Digits) + 1] = ":"}
    IN  IF at = {} THEN NoMatch
        ELSE LET i == CHOOSE i \in at : \A j \in at : i <= j
             IN  SubSeq(errMsg, i + 1, RunEnd(errMsg, i + 1, Digits))

\* the patterns in the order they are tried
patternMatches(errMsg) == <<matchLine(errMsg), matchArrow(errMsg)>>

\* fmt.Sprintf("Error in %s:%d", file, line)
sourceInfoOf(file, line) == <<"Error in ", file, ":">> \o FmtInt(line)

NoSourceInfo == <<>>

\* a variant of nearbyAt that looks after the line before it looks ahead of it
nearbyAfterFirst(lineMap, lineNum, offset) ==
    IF (lineNum + offset) \in DOMAIN lineMap
    THEN sourceInfoOf(lineMap[lineNum + offset].File,
                      lineMap[lineNum + offset].LineNumber - offset)
    ELSE IF (lineNum - offset) \in DOMAIN lineMap
         THEN sourceInfoOf(lineMap[lineNum - offset].File,
                           lineMap[lineNum - offset].LineNumber + offset)
         ELSE NoSourceInfo

\* one round of the nearest-line loop: the entry offset lines before, else after
nearbyAt(lineMap, lineNum, offset) ==
    IF (lineNum - offset) \in DOMAIN lineMap
    THEN sourceInfoOf(lineMap[lineNum - offset].File,
                      lineMap[lineNum - offset].LineNumber + offset)
    ELSE IF (lineNum + offset) \in DOMAIN lineMap
         THEN sourceInfoOf(lineMap[lineNum + offset].File,
                           lineMap[lineNum + offset].LineNumber - offset)
         ELSE NoSourceInfo

RECURSIVE nearest(_, _, _)
\* the nearest-line loop from an offset on
nearest(lineMap, lineNum, offset) ==
    IF offset > MaxOffset THEN NoSourceInfo
    ELSE IF nearbyAt(lineMap, lineNum, offset) # NoSourceInfo
         THEN nearbyAt(lineMap, lineNum, offset)
         ELSE nearest(lineMap, lineNum, offset + 1)

\* the body of the loop over the patterns for one matched line number
mapLine(lineMap, lineNum) ==
    IF lineNum \in DOMAIN lineMap
    THEN sourceInfoOf(lineMap[lineNum].File, lineMap[lineNum].LineNumber)
    ELSE nearest(lineMap, lineNum, 1)

RECURSIVE mapFrom(_, _, _)
\* the loop over the patterns, from the k-th on
mapFrom(matches, lineMap, k) ==
    IF k > Len(matches) THEN NoSourceInfo
    ELSE IF matches[k] # NoMatch /\ mapLine(lineMap, Atoi(matches[k])) # NoSourceInfo
         THEN mapLine(lineMap, Atoi(matches[k]))
         ELSE mapFrom(matches, lineMap, k + 1)

\* tryMapErrorToSource
tryMapErrorToSource(errMsg, lineMap) == mapFrom(patternMatches(errMsg), lineMap, 1)

\* strings.ReplaceAll(errMsg, old, new) for a one-token old
ReplaceAll(errMsg, old, new) ==
    Flatten([i \in 1..Len(errMsg) |-> IF errMsg[i] = old THEN new ELSE <<errMsg[i]>>])

\* the message of the parse error as RunE reports it
surfacedMessage(errMsg, lineMap) ==
    LET sourceInfo == tryMapErrorToSource(errMsg, lineMap)
    IN  IF sourceInfo # NoSourceInfo
        THEN sourceInfo \o <<NL>> \o ReplaceAll(errMsg, "schema.cham", sourceInfo)
        ELSE errMsg

\* the messages of the schema parser: with "line N", with "--> file:N:col", without a
\* line
NoLine == 0 - 1

ErrorMessage(line, form) ==
    CASE form = "line"  -> <<"Parse error at ", "line ">> \o Itoa(line) \o <<" in ", "schema.cham">>
      [] form = "arrow" -> <<"Parse error", NL, "--> ", "schema.cham", ":">> \o Itoa(line) \o <<":", "5">>
      [] form = "none"  -> <<"Parse error: ", "unexpected end of input">>

\* the line maps of merges of one or two small files
RemapContents == {<<>>, <<"a">>, <<"a", NL>>, <<"a", NL, "a", NL>>}

RemapLineMaps ==
    {SimpleMerge(<<"a.cham">>, <<c>>).result.LineMap : c \in RemapContents}
        \cup {SimpleMerge(<<"a.cham", "b.cham">>, <<c, d>>).result.LineMap :
                 c \in RemapContents, d \in RemapContents}

Remap(line, errMsg, lineMap) ==
    [line |-> line, errMsg |-> errMsg, lineMap |-> lineMap, done |-> FALSE,
     sourceInfo |-> NoSourceInfo, surfaced |-> <<>>]

\* RunE: LoadSchemaFromString failed; the error is mapped and reported
MapError ==
    /\ ~em.done
    /\ em' = [em EXCEPT !.done = TRUE,
                        !.sourceInfo = tryMapErrorToSource(em.errMsg, em.lineMap),
                        !.surfaced = surfacedMessage(em.errMsg, em.lineMap)]
    /\ UNCHANGED <<coreVars, vd, qs, fc, ch, ld, rg, cl, mr, en, jl>>

IdleRemap == em = Remap(NoLine, <<>>, EmptyMap)

(***************************************************************************)
(* The mutation-factory registry (engine/registry.go).                     *)
(***************************************************************************)
NilFactory == "nil"

\* the values a caller may hand to RegisterMutationFactory
Factories == {NilFactory, "factory 1", "factory 2"}

\* a call, whether it panicked, and what it returned
RegistryCall(call, arg, panicked, ret) ==
    [call |-> call, arg |-> arg, panicked |-> panicked, ret |-> ret]

\* a variant of registerFactory that takes every registration
registerOverwrites(mutationFactory, factory) == [panicked |-> FALSE, mutationFactory |-> factory]

\* the body of RegisterMutationFactory: whether it panics, and the variable after it
registerFactory(mutationFactory, factory) ==
    IF mutationFactory # NilFactory
    THEN [panicked |-> TRUE, mutationFactory |-> mutationFactory]
    ELSE [panicked |-> FALSE, mutationFactory |-> factory]

\* the body of getMutationFactory
getFactory(mutationFactory) ==
    IF mutationFactory = NilFactory
    THEN [panicked |-> TRUE, ret |-> NilFactory]
    ELSE [panicked |-> FALSE, ret |-> mutationFactory]

Registry(mutationFactory, calls) == [mutationFactory |-> mutationFactory, calls |-> calls]

\* RegisterMutationFactory(factory)
RegisterMutationFactory(factory) ==
    /\ Len(rg.calls) < MaxRegistryCalls
    /\ rg' = Registry(registerFactory(rg.mutationFactory, factory).mutationFactory,
                      Append(rg.calls,
                             RegistryCall("Register", factory,
                                          registerFactory(rg.mutationFactory, factory).panicked,
                                          NilFactory)))
    /\ UNCHANGED <<coreVars, vd, qs, fc, ch, ld, em, cl, mr, en, jl>>

\* getMutationFactory()
GetMutationFactory ==
    /\ Len(rg.calls) < MaxRegistryCalls
    /\ rg' = Registry(rg.mutationFactory,
                      Append(rg.calls,
                             RegistryCall("Get", NilFactory,
                                          getFactory(rg.mutationFactory).panicked,
                                          getFactory(rg.mutationFactory).ret)))
    /\ UNCHANGED <<coreVars, vd, qs, fc, ch, ld, em, cl, mr, en, jl>>

IdleRegistry == rg = Registry(NilFactory, <<>>)

(***************************************************************************)
(* The error classifiers (engine/mutation/errors.go).                      *)
(***************************************************************************)
\* the error types of the mutation package
MutationErrorTypes ==
    {"ValidationError", "TypeMismatchError", "LengthExceededError", "FormatError",
     "ConstraintError", "UniqueConstraintError", "NotNullError", "ForeignKeyError",
     "ForeignKeyConstraintError", "UnknownFieldError", "UnknownEntityError",
     "NotFoundError", "ConflictError", "SafetyError", "AuthorizationError"}

\* the dynamic types an error value may have: those, a nil error, and the
\* error made by fmt.Errorf
ErrorTypes == MutationErrorTypes \cup {"nil", "wrapError"}

ErrorDetails == {"", "unique"}

ErrorFields == {<<>>, F_Email, <<"i", "d">>}

\* err.(*SafetyError)
IsSafetyError(err) == err.type = "SafetyError"

\* the switch of IsConstraintError on the type of err
IsConstraintError(err) ==
    err.type \in {"UniqueConstraintError", "NotNullError", "ForeignKeyError",
                  "ForeignKeyConstraintError"}

Classified(err) == [err |-> err, done |-> FALSE, safety |-> FALSE, constraint |-> FALSE]

\* IsSafetyError(err) and IsConstraintError(err)
Classify ==
    /\ ~cl.done
    /\ cl' = [cl EXCEPT !.done = TRUE,
                        !.safety = IsSafetyError(cl.err),
                        !.constraint = IsConstraintError(cl.err)]
    /\ UNCHANGED <<coreVars, vd, qs, fc, ch, ld, em, rg, mr, en, jl>>

IdleClassify == cl = Classified(NoErr)

(***************************************************************************)
(* The migrate command (cmd/chameleon/migrate.go, RunE).                   *)
(***************************************************************************)
\* current.state.json: absent, or the status and the count of applied migrations
NoStateFile == [status |-> "absent", applied |-> 0]

StateFiles == {NoStateFile, [status |-> "pending_migration", applied |-> 0],
               [status |-> "in_sync", applied |-> 1]}

\* manifest.json as the number of migrations it lists
Manifests == {0, 1}

\* the steps of the command that may fail, in the order they run
MigrateSteps == <<"load_state", "generate", "get_last_migration", "connect", "exec",
                  "save_state", "add_migration">>

\* the step that fails in a run, if one does
Failures == {"none"} \cup {MigrateSteps[i] : i \in DOMAIN MigrateSteps}

MigrateInput(dryRun, applyMigration, checkOnly, state, manifest, fails) ==
    [dryRun |-> dryRun, applyMigration |-> applyMigration, checkOnly |-> checkOnly,
     state |-> state, manifest |-> manifest, fails |-> fails]

MigrateRun(in, displayed, connected, executed, state, manifest, err) ==
    [in |-> in, done |-> TRUE, displayed |-> displayed, connected |-> connected,
     executed |-> executed, state |-> state, manifest |-> manifest, err |-> err]

NotRun(in) ==
    [in |-> in, done |-> FALSE, displayed |-> FALSE, connected |-> FALSE,
     executed |-> FALSE, state |-> in.state, manifest |-> in.manifest, err |-> ""]

\* a variant of stopsBeforeApply that looks at --apply only
stopsUnlessApply(dryRun, applyMigration) == ~applyMigration

\* if dryRun || !applyMigration { ...; return nil }
stopsBeforeApply(dryRun, applyMigration) == dryRun \/ ~applyMigration

\* currentState after a successful migration
appliedState(state) == [status |-> "in_sync", applied |-> state.applied + 1]

\* the command from the loading of the state to its return
migrate(in) ==
    IF in.fails \in {"load_state", "generate", "get_last_migration"}
    THEN MigrateRun(in, FALSE, FALSE, FALSE, in.state, in.manifest, in.fails)
    ELSE IF stopsBeforeApply(in.dryRun, in.applyMigration)
    THEN MigrateRun(in, TRUE, FALSE, FALSE, in.state, in.manifest, "")
    ELSE IF in.fails = "connect"
    THEN MigrateRun(in, TRUE, TRUE, FALSE, in.state, in.manifest, in.fails)
    ELSE IF in.fails = "exec"
    THEN MigrateRun(in, TRUE, TRUE, TRUE, in.state, in.manifest, in.fails)
    ELSE MigrateRun(in, TRUE, TRUE, TRUE,
                    IF in.fails = "save_state" THEN in.state ELSE appliedState(in.state),
                    IF in.fails = "add_migration" THEN in.manifest ELSE in.manifest + 1,
                    "")

\* chameleon migrate [--dry-run] [--apply] [--check]
Migrate ==
    /\ ~mr.done
    /\ mr' = migrate(mr.in)
    /\ UNCHANGED <<coreVars, vd, qs, fc, ch, ld, em, rg, cl, en, jl>>

IdleMigrate == mr = NotRun(MigrateInput(FALSE, FALSE, FALSE, NoStateFile, 0, "none"))

(***************************************************************************)
(* The connection of an Engine (pkg/engine: Engine.Connect, Close,         *)
(* IsConnected; Connector; QueryBuilder.Execute, Executor.Execute).        *)
(* Connectors are numbered in the order NewConnector made them; 0 is nil.  *)
(***************************************************************************)
NilPtr == 0

\* NewConnector(config): a connector whose pool is nil
NewConnector(pools) == Append(pools, "nil")

\* Connector.Connect: pgxpool.New succeeds or fails
connectorConnect(pools, c, ok) == IF ok THEN [pools EXCEPT ![c] = "open"] ELSE pools

\* Connector.IsConnected
connectorIsConnected(pools, c) == pools[c] # "nil"

\* Connector.Close
connectorClose(pools, c) == [pools EXCEPT ![c] = "nil"]

\* Engine.IsConnected
IsConnected(e) == e.connector # NilPtr /\ connectorIsConnected(e.pools, e.connector)

\* a call on the engine: whether IsConnected() held when it was made, the error
\* it returned, and the connector on whose pool it sent a query
EngineCall(call, connected, err, sentOn) ==
    [call |-> call, connected |-> connected, err |-> err, sentOn |-> sentOn]

Engine(connector, executor, pools, calls) ==
    [connector |-> connector, executor |-> executor, pools |-> pools, calls |-> calls]

\* Engine.Connect(ctx, config)
Connect(ok) ==
    /\ Len(en.calls) < MaxEngineCalls
    /\ LET pools == NewConnector(en.pools)
           c == Len(pools)
       IN  en' = Engine(c,
                        IF ok THEN c ELSE en.executor,
                        connectorConnect(pools, c, ok),
                        Append(en.calls,
                               EngineCall("Connect", IsConnected(en),
                                          IF ok THEN "" ELSE "failed to connect to PostgreSQL",
                                          NilPtr)))
    /\ UNCHANGED <<coreVars, vd, qs, fc, ch, ld, em, rg, cl, mr, jl>>

\* Engine.Close()
Close ==
    /\ Len(en.calls) < MaxEngineCalls
    /\ en' = Engine(en.connector, en.executor,
                    IF en.connector # NilPtr
                    THEN connectorClose(en.pools, en.connector)
                    ELSE en.pools,
                    Append(en.calls, EngineCall("Close", IsConnected(en), "", NilPtr)))
    /\ UNCHANGED <<coreVars, vd, qs, fc, ch, ld, em, rg, cl, mr, jl>>

\* QueryBuilder.Execute and Executor.Execute up to the main query; generated tells
\* whether ToSQL succeeded
executeOn(e, generated) ==
    IF e.executor = NilPtr
    THEN EngineCall("Execute", IsConnected(e),
                    "not connected to database, call Engine.Connect() first", NilPtr)
    ELSE IF ~connectorIsConnected(e.pools, e.executor)
    THEN EngineCall("Execute", IsConnected(e), "not connected to database", NilPtr)
    ELSE IF ~generated
    THEN EngineCall("Execute", IsConnected(e), "SQL generation failed", NilPtr)
    ELSE EngineCall("Execute", IsConnected(e), "", e.executor)

\* engine.Query(entity).Execute(ctx)
Execute(generated) ==
    /\ Len(en.calls) < MaxEngineCalls
    /\ en' = [en EXCEPT !.calls = Append(en.calls, executeOn(en, generated))]
    /\ UNCHANGED <<coreVars, vd, qs, fc, ch, ld, em, rg, cl, mr, jl>>

IdleEngine == en = Engine(NilPtr, NilPtr, <<>>, <<>>)

(***************************************************************************)
(* The journal Logger (internal/journal/logger.go) under concurrent        *)
(* callers, within one day and with no I/O error.                          *)
(***************************************************************************)
Callers == 1..NumCallers

\* the calls a caller may make: the method and the action of the entry it logs
JournalCalls ==
    {<<"Log", "init">>, <<"LogSchema", "schema">>, <<"LogError", "migrate">>,
     <<"LogMigration", "migrate">>}

JournalActions == {c[2] : c \in JournalCalls}

NoCounts == [a \in JournalActions |-> 0]

\* index.json: its date, "entries" and "by_action" (an action without a key counts 0)
Index(date, entries, byAction) == [date |-> date, entries |-> entries, by_action |-> byAction]

\* no index.json: ReadFile fails and updateIndex starts from an empty map
NoIndex == Index("none", 0, NoCounts)

\* the log file of the day and the index a Logger may find when it is made: nothing,
\* the index of the day before, or a line and the index of an earlier run of the day
JournalFiles ==
    {[lines |-> <<>>, index |-> NoIndex],
     [lines |-> <<>>, index |-> Index("yesterday", 2, [NoCounts EXCEPT !["migrate"] = 2])],
     [lines |-> <<[by |-> 0, action |-> "init"]>>,
      index |-> Index("today", 1, [NoCounts EXCEPT !["init"] = 1])]}

\* a variant of canLock that grants a mutex whoever holds it
lockAlways(mutex) == TRUE

\* Mutex.Lock returns when the mutex is free (0: no holder)
canLock(mutex) == mutex = 0

\* updateIndex from the index read to the index saved
updatedIndex(index, action) ==
    LET today == IF index.date # "today" THEN Index("today", 0, NoCounts) ELSE index
    IN  Index("today", today.entries + 1,
              [today.by_action EXCEPT ![action] = today.by_action[action] + 1])

Journal(files) ==
    [mu |-> 0, indexMu |-> 0, lines |-> files.lines, index |-> files.index,
     pc |-> [p \in Callers |-> "idle"],
     call |-> [p \in Callers |-> <<"", "">>],
     read |-> [p \in Callers |-> NoIndex]]

\* a caller enters Log, LogSchema, LogError or LogMigration
Call(p, c) ==
    /\ jl.pc[p] = "idle"
    /\ jl' = [jl EXCEPT !.pc[p] = "lock", !.call[p] = c]
    /\ UNCHANGED <<coreVars, vd, qs, fc, ch, ld, em, rg, cl, mr, en>>

\* l.mu.Lock()
LockMu(p) ==
    /\ jl.pc[p] = "lock" /\ canLock(jl.mu)
    /\ jl' = [jl EXCEPT !.pc[p] = "write", !.mu = p]
    /\ UNCHANGED <<coreVars, vd, qs, fc, ch, ld, em, rg, cl, mr, en>>

\* OpenFile(O_APPEND) and f.WriteString(line + "\n")
WriteLine(p) ==
    /\ jl.pc[p] = "write"
    /\ jl' = [jl EXCEPT !.pc[p] = "lockIndex",
                        !.lines = Append(jl.lines, [by |-> p, action |-> jl.call[p][2]])]
    /\ UNCHANGED <<coreVars, vd, qs, fc, ch, ld, em, rg, cl, mr, en>>

\* updateIndex: l.indexMu.Lock()
LockIndexMu(p) ==
    /\ jl.pc[p] = "lockIndex" /\ canLock(jl.indexMu)
    /\ jl' = [jl EXCEPT !.pc[p] = "read", !.indexMu = p]
    /\ UNCHANGED <<coreVars, vd, qs, fc, ch, ld, em, rg, cl, mr, en>>

\* updateIndex: os.ReadFile(indexFile) and Unmarshal
ReadIndex(p) ==
    /\ jl.pc[p] = "read"
    /\ jl' = [jl EXCEPT !.pc[p] = "save", !.read[p] = jl.index]
    /\ UNCHANGED <<coreVars, vd, qs, fc, ch, ld, em, rg, cl, mr, en>>

\* updateIndex: the counters and os.WriteFile(indexFile)
WriteIndex(p) ==
    /\ jl.pc[p] = "save"
    /\ jl' = [jl EXCEPT !.pc[p] = "unlockIndex",
                        !.index = updatedIndex(jl.read[p], jl.call[p][2])]
    /\ UNCHANGED <<coreVars, vd, qs, fc, ch, ld, em, rg, cl, mr, en>>

\* updateIndex returns: defer l.indexMu.Unlock()
UnlockIndexMu(p) ==
    /\ jl.pc[p] = "unlockIndex"
    /\ jl' = [jl EXCEPT !.pc[p] = "unlock", !.indexMu = 0]
    /\ UNCHANGED <<coreVars, vd, qs, fc, ch, ld, em, rg, cl, mr, en>>

\* the call returns nil: defer f.Close(), defer l.mu.Unlock()
UnlockMu(p) ==
    /\ jl.pc[p] = "unlock"
    /\ jl' = [jl EXCEPT !.pc[p] = "done", !.mu = 0]
    /\ UNCHANGED <<coreVars, vd, qs, fc, ch, ld, em, rg, cl, mr, en>>

\* the steps of caller p inside its call
LoggerStep(p) ==
    \/ LockMu(p)
    \/ WriteLine(p)
    \/ LockIndexMu(p)
    \/ ReadIndex(p)
    \/ WriteIndex(p)
    \/ UnlockIndexMu(p)
    \/ UnlockMu(p)

IdleJournal == jl = Journal([lines |-> <<>>, index |-> NoIndex])

\* the subsystems modelled as one call each, before the call
IdleRest == IdleValidate /\ IdleQuery /\ IdleFields /\ IdleChain /\ IdleLoader /\ IdleRemap /\ IdleRegistry /\ IdleClassify /\ IdleMigrate /\ IdleEngine /\ IdleJournal

(***************************************************************************)
(* Query materialization: Executor.Execute (pkg/engine executor).          *)
(***************************************************************************)
\* identifiers as the driver hands them over: a string, a []byte, a [16]byte (the
\* PostgreSQL uuid type) or an integer
IdString(s) == [kind |-> "string", v |-> s]

IdBytes(s) == [kind |-> "bytes", v |-> s]

IdUUID(bytes) == [kind |-> "uuid16", v |-> bytes]

\* an integer id, held as its decimal digits
IdInt(n) == [kind |-> "int", v |-> Itoa(n)]

NoId == [kind |-> "none", v |-> <<>>]

\* a Row: the table it was read from and its "id" column (NoId: no such column)
Row(tbl, id) == [tbl |-> tbl, id |-> id]

HexDigits == <<"0","1","2","3","4","5","6","7","8","9","a","b","c","d","e","f">>

\* %x of a byte slice: two hexadecimal digits a byte
Hex(bytes) ==
    Flatten([i \in 1..Len(bytes) |-> <<HexDigits[(bytes[i] \div 16) + 1], HexDigits[(bytes[i] % 16) + 1]>>])

\* uuidToString
uuidToString(uuid) ==
    Hex(SubSeq(uuid, 1, 4)) \o <<"-">> \o Hex(SubSeq(uuid, 5, 6)) \o <<"-">>
        \o Hex(SubSeq(uuid, 7, 8)) \o <<"-">> \o Hex(SubSeq(uuid, 9, 10)) \o <<"-">>
        \o Hex(SubSeq(uuid, 11, 16))

\* the conversion of one id by extractIDs
convertID(id) ==
    CASE id.kind = "bytes" -> IdString(id.v)
      [] id.kind = "uuid16" -> IdString(uuidToString(id.v))
      [] OTHER -> id

RECURSIVE extractIDs(_)
\* extractIDs(rows, "id")
extractIDs(rows) ==
    IF rows = <<>> THEN <<>>
    ELSE IF Head(rows).id.kind = "none"
         THEN extractIDs(Tail(rows))
         ELSE <<convertID(Head(rows).id)>> \o extractIDs(Tail(rows))

\* strings.ReplaceAll(v, "'", "''")
escapeQuotes(s) == Flatten([i \in 1..Len(s) |-> IF s[i] = "'" THEN <<"'", "'">> ELSE <<s[i]>>])

\* the literal replacePlaceholder writes for one id
idLiteral(id) ==
    CASE id.kind = "string" -> <<"'">> \o escapeQuotes(id.v) \o <<"'">>
      [] id.kind = "int" -> id.v
      [] OTHER -> <<"'">> \o id.v \o <<"'">>

\* strings.Replace(sql, old, new, 1), old being one token of sql
ReplaceFirst(sql, old, new) ==
    IF \E i \in 1..Len(sql) : sql[i] = old
    THEN LET first == CHOOSE i \in 1..Len(sql) : sql[i] = old /\ \A j \in 1..(i - 1) : sql[j] # old
         IN  SubSeq(sql, 1, first - 1) \o new \o SubSeq(sql, first + 1, Len(sql))
    ELSE sql

\* a variant of replacePlaceholder that writes an empty id list as an empty list
ReplaceEmptyByEmptyList(sql, ids) ==
    ReplaceFirst(sql, "$PARENT_IDS", Join([i \in 1..Len(ids) |-> idLiteral(ids[i])], <<", ">>))

\* replacePlaceholder
replacePlaceholder(sql, ids) ==
    IF Len(ids) = 0
    THEN ReplaceFirst(sql, "$PARENT_IDS", <<"NULL">>)
    ELSE ReplaceFirst(sql, "$PARENT_IDS", Join([i \in 1..Len(ids) |-> idLiteral(ids[i])], <<", ">>))

(***************************************************************************)
(* The compiled plan. The SQL generator is not part of the sources: the    *)
(* plan holds one eager query for each include path, in the order of the   *)
(* include list, named by the relation the path ends in, with one          *)
(* $PARENT_IDS placeholder.                                                *)
(***************************************************************************)
IncludePaths == {<<"orders">>, <<"orders", "items">>, <<"profile">>, <<"profile", "items">>}

Last(s) == s[Len(s)]

Front(s) == SubSeq(s, 1, Len(s) - 1)

\* the eager query of an include path
EagerQuery(path) ==
    <<Last(path), <<"SELECT * FROM ", Last(path), " WHERE ", "parent_id", " IN (", "$PARENT_IDS", ")">>>>

\* GeneratedSQL for a query with these include paths
GenerateSQL(includes) ==
    [MainQuery |-> <<"SELECT * FROM ", "users">>,
     EagerQueries |-> [i \in 1..Len(includes) |-> EagerQuery(includes[i])]]

(***************************************************************************)
(* The database: the rows a table may give, and the answer to a query.     *)
(***************************************************************************)
U_bytes == <<85, 14, 132, 0, 226, 155, 65, 212, 167, 22, 68, 102, 85, 68, 0, 0>>

TableRows(tbl) ==
    CASE tbl = "users"   -> {Row("users", IdUUID(U_bytes)), Row("users", IdString(<<"u", "2">>))}
      [] tbl = "orders"  -> {Row("orders", IdString(<<"o", "'", "1">>)), Row("orders", IdInt(2))}
      [] tbl = "items"   -> {Row("items", IdBytes(<<"i", "1">>)), Row("items", NoId)}
      [] tbl = "profile" -> {Row("profile", IdInt(7))}

\* the table a query reads: the token after "SELECT * FROM "
QueryTable(sql) == sql[2]

\* the rows a successful query may return: any rows of its table, none when the
\* parent list is the literal NULL (nothing is IN (NULL))
QueryRows(sql) ==
    IF \E i \in 1..Len(sql) - 1 : sql[i] = " IN (" /\ sql[i + 1] = "NULL"
    THEN {<<>>}
    ELSE {<<>>} \cup {<<r>> : r \in TableRows(QueryTable(sql))}
           \cup {o \in Orders(TableRows(QueryTable(sql))) : TRUE}

\* the answers Pool().Query may give: an error when the context is cancelled, else
\* rows or an error of the database
Answer(ok, rows) == [ok |-> ok, rows |-> rows]

QueryAnswers(c, sql) ==
    IF c = "cancelled"
    THEN {Answer(FALSE, <<>>)}
    ELSE {Answer(FALSE, <<>>)} \cup {Answer(TRUE, rows) : rows \in QueryRows(sql)}

(***************************************************************************)
(* Executor.Execute, one action for each stretch between round-trips.      *)
(***************************************************************************)
\* an error made by fmt.Errorf: its own text, and the text of the error it wraps (%w)
GoErr(msg, wrapped) == [msg |-> msg, wrapped |-> wrapped]

NoCause == GoErr("", "")

ExecErr(msg, rel) == [msg |-> msg, rel |-> rel, cause |-> NoCause]

\* fmt.Errorf("...: %w", err) of Execute around the error of ToSQL
ExecErrOf(msg, cause) == [msg |-> msg, rel |-> "", cause |-> cause]

NoExecErr == ExecErr("nil", "")

QueryResult(entity, rows, relations) ==
    [isNil |-> FALSE, Entity |-> entity, Rows |-> rows, Relations |-> relations]

NilResult == [isNil |-> TRUE, Entity |-> "", Rows |-> <<>>, Relations |-> EmptyMap]

ExecRet(result, err) == [done |-> TRUE, result |-> result, err |-> err]

NotReturned == [done |-> FALSE, result |-> NilResult, err |-> NoExecErr]

Frame(pc, generated, mainRows, relations, parentIDs, i) ==
    [pc |-> pc, generated |-> generated, mainRows |-> mainRows, relations |-> relations,
     parentIDs |-> parentIDs, i |-> i]

IdleFrame == Frame("idle", GenerateSQL(<<>>), <<>>, EmptyMap, <<>>, 0)

\* one round-trip: the query, the ids put into it, and the answer
Trip(rel, sql, ids, answer) == [rel |-> rel, sql |-> sql, ids |-> ids, answer |-> answer]

\* what chameleon_generate_sql answers: a result code and the text of error_out
CompilerReport(code, text) == [code |-> code, text |-> text]

CompilerOk == CompilerReport(0, "result JSON")

CompilerMessages == {"Unknown relation: orders", "Unknown entity: User"}

\* the answers of the Schema Compiler: the generated SQL, an error with a message,
\* an error without one
CompilerReports ==
    {CompilerOk, CompilerReport(1, "")} \cup {CompilerReport(1, m) : m \in CompilerMessages}

\* ffi.GenerateSQL: the error of the compiler as the compiler worded it
ffiGenerateSQL(report) ==
    IF report.code # 0
    THEN IF report.text # ""
         THEN [ok |-> FALSE, err |-> report.text]
         ELSE [ok |-> FALSE, err |-> "SQL generation failed with code 1"]
    ELSE [ok |-> TRUE, err |-> ""]

\* what ToSQL returns: a nil *GeneratedSQL and an error, or the plan and nil
SQLRet(ok, generated, err) == [ok |-> ok, generated |-> generated, err |-> err]

\* a variant of ToSQL that words the error of the compiler itself
ToSQLOwnWords(q) ==
    IF ~q.engine.schema
    THEN {SQLRet(FALSE, GenerateSQL(<<>>), GoErr("no schema loaded", ""))}
    ELSE IF ~ffiGenerateSQL(q.engine.compiler).ok
         THEN {SQLRet(FALSE, GenerateSQL(<<>>), GoErr("SQL generation failed", ""))}
         ELSE {SQLRet(TRUE, GenerateSQL(q.query.Includes), NoCause)}

\* QueryBuilder.ToSQL: an error when the engine has no schema or the generator
\* reports one, else the generated plan
ToSQL(q) ==
    IF ~q.engine.schema
    THEN {SQLRet(FALSE, GenerateSQL(<<>>), GoErr("no schema loaded", ""))}
    ELSE IF ~ffiGenerateSQL(q.engine.compiler).ok
         THEN {SQLRet(FALSE, GenerateSQL(<<>>),
                      GoErr("SQL generation failed", ffiGenerateSQL(q.engine.compiler).err))}
         ELSE {SQLRet(TRUE, GenerateSQL(q.query.Includes), NoCause)}

\* a variant of abort that hands back an empty result beside the error
abortWithEmptyResult(err) == ExecRet(QueryResult("", <<>>, EmptyMap), err)

\* return nil, err
abort(err) == ExecRet(NilResult, err)

\* a variant of storeRelation that keeps the rows a relation name already has
keepFirstRelation(relations, relName, eagerRows) ==
    IF relName \in DOMAIN relations THEN relations ELSE MapPut(relations, relName, eagerRows)

\* relations[relName] = eagerRows
storeRelation(relations, relName, eagerRows) == MapPut(relations, relName, eagerRows)

\* a variant of eagerAt that ranges over the eager queries from the last to the first
eagerReversed(generated, i) == generated.EagerQueries[Len(generated.EagerQueries) + 1 - i]

\* the eager query of the i-th turn of the range over generated.EagerQueries
eagerAt(generated, i) == generated.EagerQueries[i]

\* Execute up to the main query: the connection check and SQL generation
ExecStart ==
    /\ ex.pc = "idle" /\ ~exRet.done
    /\ IF ~conn
       THEN /\ exRet' = abort(ExecErr("not connected to database", ""))
            /\ ex' = [ex EXCEPT !.pc = "done"]
       ELSE \E g \in ToSQL(qb) :
               IF ~g.ok
               THEN /\ exRet' = abort(ExecErrOf("SQL generation failed", g.err))
                    /\ ex' = [ex EXCEPT !.pc = "done"]
               ELSE /\ ex' = [ex EXCEPT !.pc = "main", !.generated = g.generated]
                    /\ UNCHANGED exRet
    /\ UNCHANGED <<qb, conn, ctx, sent>>
    /\ UNCHANGED notExVars

\* the main query, and the return when the plan has no eager query
ExecMain ==
    /\ ex.pc = "main"
    /\ \E a \in QueryAnswers(ctx, ex.generated.MainQuery) :
          /\ sent' = Append(sent, Trip("", ex.generated.MainQuery, <<>>, a))
          /\ IF ~a.ok
             THEN /\ exRet' = abort(ExecErr("main query failed", ""))
                  /\ ex' = [ex EXCEPT !.pc = "done"]
             ELSE IF Len(ex.generated.EagerQueries) = 0
                  THEN /\ exRet' = ExecRet(QueryResult(qb.query.Entity, a.rows, EmptyMap), NoExecErr)
                       /\ ex' = [ex EXCEPT !.pc = "done", !.mainRows = a.rows,
                                           !.parentIDs = extractIDs(a.rows)]
                  ELSE /\ ex' = [ex EXCEPT !.pc = "eager", !.mainRows = a.rows,
                                           !.parentIDs = extractIDs(a.rows), !.i = 1]
                       /\ UNCHANGED exRet
    /\ UNCHANGED <<qb, conn, ctx>>
    /\ UNCHANGED notExVars

\* one turn of the eager loop, and the return after the last one
ExecEager ==
    /\ ex.pc = "eager"
    /\ LET eager == eagerAt(ex.generated, ex.i)
           relName == eager[1]
           sql == replacePlaceholder(eager[2], ex.parentIDs)
       IN  \E a \in QueryAnswers(ctx, sql) :
              /\ sent' = Append(sent, Trip(relName, sql, ex.parentIDs, a))
              /\ IF ~a.ok
                 THEN /\ exRet' = abort(ExecErr("eager query failed", relName))
                      /\ ex' = [ex EXCEPT !.pc = "done"]
                 ELSE LET relations == storeRelation(ex.relations, relName, a.rows)
                      IN  IF ex.i = Len(ex.generated.EagerQueries)
                          THEN /\ exRet' = ExecRet(QueryResult(qb.query.Entity, ex.mainRows, relations),
                                                   NoExecErr)
                               /\ ex' = [ex EXCEPT !.pc = "done", !.relations = relations,
                                                   !.parentIDs = extractIDs(a.rows)]
                          ELSE /\ ex' = [ex EXCEPT !.relations = relations,
                                                   !.parentIDs = extractIDs(a.rows),
                                                   !.i = ex.i + 1]
                               /\ UNCHANGED exRet
    /\ UNCHANGED <<qb, conn, ctx>>
    /\ UNCHANGED notExVars

\* the caller cancels the context while Execute runs
Cancel ==
    /\ ctx = "live" /\ ex.pc \in {"main", "eager"}
    /\ ctx' = "cancelled"
    /\ UNCHANGED <<qb, conn, ex, sent, exRet>>
    /\ UNCHANGED notExVars

\* every nested include path comes after the path of its parent
ParentsFirst(includes) ==
    \A i \in 1..Len(includes) :
        Len(includes[i]) > 1 => \E j \in 1..(i - 1) : includes[j] = Front(includes[i])

\* the include lists of the model: distinct paths, a parent path before its children
IncludeLists ==
    {l \in UNION {[1..n -> IncludePaths] : n \in 0..MaxIncludes} :
        /\ \A i, j \in 1..Len(l) : l[i] = l[j] => i = j
        /\ ParentsFirst(l)}

\* Engine.Query(entity) followed by Include(path) for each path of the list
QueryBuilder(schema, compiler, entity, includes) ==
    [engine |-> [schema |-> schema, compiler |-> compiler],
     query |-> [Entity |-> entity, Includes |-> includes]]

IdleExec ==
    /\ qb = QueryBuilder(FALSE, CompilerOk, "User", <<>>)
    /\ conn = FALSE /\ ctx = "live"
    /\ ex = IdleFrame /\ sent = <<>> /\ exRet = NotReturned

InitExec ==
    /\ qb \in {QueryBuilder(s, c, "User", l) :
                  s \in BOOLEAN, c \in CompilerReports, l \in IncludeLists}
    /\ conn \in BOOLEAN
    /\ ctx = "live"
    /\ ex = IdleFrame /\ sent = <<>> /\ exRet = NotReturned
    /\ IdleDelete /\ IdleUpdate /\ IdleInsert /\ IdleMerge /\ IdleRest

NextExec ==
    \/ ExecStart
    \/ ExecMain
    \/ ExecEager
    \/ Cancel

SpecExec == InitExec /\ [][NextExec]_vars

InitDelete ==
    /\ db \in {NewDeleteBuilder(e) : e \in Entities}
    /\ dbRet = NoRet
    /\ dbCalls = {}
    /\ IdleUpdate /\ IdleInsert /\ IdleExec /\ IdleMerge /\ IdleRest

NextDelete ==
    \/ \E field \in FilterFields, op \in FilterOps, value \in FilterValues :
          DB_Filter(field, op, value)
    \/ DB_ForceDeleteAll
    \/ DB_Build
    \/ DB_Exec

SpecDelete == InitDelete /\ [][NextDelete]_vars

(***************************************************************************)
(* C1. Delete safety guard.                                                *)
(***************************************************************************)
\* C1: for an existing entity, a DeleteBuilder.Build that finds no filter after
\* parsing fails with SafetyError "delete_without_filter" when forceDeleteAll is
\* false and succeeds when it is true; a Build that succeeded on a builder with
\* zero filters was preceded by a ForceDeleteAll call.
C1_DeleteGuard ==
    (dbRet.call = "Build" /\ HasEntity(db.entity)) =>
        /\ (parseFilters(db.filters) = {EmptyMap} /\ ~db.forceDeleteAll)
              => dbRet.err = SafetyError("delete_without_filter")
        /\ (parseFilters(db.filters) = {EmptyMap} /\ db.forceDeleteAll)
              => (dbRet.err = NoErr /\ dbRet.mutation.Type = "MutationDelete")
        /\ (dbRet.err = NoErr /\ Cardinality(DOMAIN db.filters) = 0)
              => "ForceDeleteAll" \in dbCalls

\* a Build with no filter that ForceDeleteAll let through
C1_Witness ==
    /\ dbRet.call = "Build" /\ HasEntity(db.entity)
    /\ Cardinality(DOMAIN db.filters) = 0
    /\ dbRet.err = NoErr
    /\ "ForceDeleteAll" \in dbCalls

(***************************************************************************)
(* C2. Update safety guard and its override.                               *)
(***************************************************************************)
InitUpdate ==
    /\ ub \in {NewUpdateBuilder(e) : e \in Entities}
    /\ ubRet = NoRet
    /\ IdleDelete /\ IdleInsert /\ IdleExec /\ IdleMerge /\ IdleRest

NextUpdate ==
    \/ \E field \in FilterFields, op \in FilterOps, value \in UpdateFilterValues :
          UB_Filter(field, op, value)
    \/ \E field \in UpdateFields, value \in UpdateValues : UB_Set(field, value)
    \/ UB_ForceUpdateAll
    \/ UB_Build
    \/ UB_Exec

SpecUpdate == InitUpdate /\ [][NextUpdate]_vars

\* the updates that pass the per-field checks of ValidateUpdateInput
ValidUpdates(b) ==
    \A f \in DOMAIN b.updates : validateUpdateField(GetEntity(b.entity), f, b.updates[f]) = NoErr

\* C2: an UpdateBuilder.Build on an existing entity with no filter fails with
\* SafetyError "update_without_filter" unless ForceUpdateAll was set; with it set and
\* valid update fields the Build succeeds.
C2_UpdateGuardOverride ==
    (/\ ubRet.call = "Build" /\ HasEntity(ub.entity)
     /\ Cardinality(DOMAIN ub.filters) = 0 /\ DOMAIN ub.updates # {}) =>
        IF ub.forceAll
        THEN ValidUpdates(ub) => (ubRet.err = NoErr /\ ubRet.mutation.Type = "MutationUpdate")
        ELSE ubRet.err = SafetyError("update_without_filter")

(***************************************************************************)
(* C3. Round-trips of a materialization.                                   *)
(***************************************************************************)
\* the eager queries of the plan Execute runs
Plan == ex.generated.EagerQueries

\* the text of a query up to its parent list
UpToParents(sql) ==
    IF \E i \in 1..Len(sql) : sql[i] = " IN ("
    THEN SubSeq(sql, 1, CHOOSE i \in 1..Len(sql) : sql[i] = " IN (")
    ELSE sql

\* C3: a successful Execute of a plan with k eager queries has sent exactly k+1
\* queries: the main query, then the eager queries of the plan, each once and in
\* the plan's order; at no time has Execute sent more than that or out of order.
C3_RoundTrips ==
    /\ ex.pc # "idle" =>
          /\ Len(sent) <= Len(Plan) + 1
          /\ \A n \in 1..Len(sent) :
                IF n = 1
                THEN sent[n].sql = ex.generated.MainQuery
                ELSE /\ sent[n].rel = Plan[n - 1][1]
                     /\ UpToParents(sent[n].sql) = UpToParents(Plan[n - 1][2])
          /\ \A n \in 1..(Len(sent) - 1) : sent[n].answer.ok
    /\ (exRet.done /\ exRet.err = NoExecErr) => Len(sent) = Len(Plan) + 1

\* a successful Execute of a plan with three eager queries
C3_Witness ==
    /\ exRet.done /\ exRet.err = NoExecErr
    /\ Len(Plan) = 3
    /\ Len(sent) = Len(Plan) + 1

(***************************************************************************)
(* C4. The parent set of each eager query.                                 *)
(***************************************************************************)
\* C4: with every parent path before its children, the ids put into the eager query
\* of an include path are the ids of the rows fetched for the path's parent: the
\* root rows for a top-level path, the parent relation's rows for a nested one.
C4_ParentSet ==
    (ex.pc # "idle" /\ ParentsFirst(qb.query.Includes)) =>
        \A n \in 2..Len(sent) :
            LET path == qb.query.Includes[n - 1]
            IN  IF Len(path) = 1
                THEN sent[n].ids = extractIDs(sent[1].answer.rows)
                ELSE \E j \in 1..(n - 2) :
                        /\ qb.query.Includes[j] = Front(path)
                        /\ sent[n].ids = extractIDs(sent[j + 1].answer.rows)

(***************************************************************************)
(* C5. The result of a materialization.                                    *)
(***************************************************************************)
\* C5 as stated: a successful Execute returns the main query's rows as Rows and, for
\* every eager query of the plan, the rows that query returned under its relation
\* name; after each eager step the frontier is the ids of that step's rows.
C5_EveryEagerQueryKept ==
    /\ (exRet.done /\ exRet.err = NoExecErr) =>
          /\ exRet.result.Rows = sent[1].answer.rows
          /\ \A i \in 1..Len(Plan) :
                /\ Plan[i][1] \in DOMAIN exRet.result.Relations
                /\ exRet.result.Relations[Plan[i][1]] = sent[i + 1].answer.rows
    /\ (Len(sent) >= 2 /\ sent[Len(sent)].answer.ok) =>
          ex.parentIDs = extractIDs(sent[Len(sent)].answer.rows)

\* C5 (amended): a successful Execute returns the main query's rows as Rows and, for
\* every relation name of the plan, the rows returned by the last eager query of
\* that name (so the rows of every eager query whose name no later one shares), and
\* no other relation; after each eager step the frontier is the ids of that step's
\* rows.
C5_Result ==
    /\ (exRet.done /\ exRet.err = NoExecErr) =>
          /\ ~exRet.result.isNil
          /\ exRet.result.Rows = sent[1].answer.rows
          /\ DOMAIN exRet.result.Relations = {Plan[i][1] : i \in 1..Len(Plan)}
          /\ \A i \in 1..Len(Plan) :
                (\A j \in (i + 1)..Len(Plan) : Plan[j][1] # Plan[i][1]) =>
                    exRet.result.Relations[Plan[i][1]] = sent[i + 1].answer.rows
    /\ (Len(sent) >= 2 /\ sent[Len(sent)].answer.ok) =>
          ex.parentIDs = extractIDs(sent[Len(sent)].answer.rows)

\* a successful Execute of two eager queries of different names, the first of which
\* returned rows
C5_Witness ==
    /\ exRet.done /\ exRet.err = NoExecErr
    /\ Len(Plan) = 2 /\ Plan[1][1] # Plan[2][1]
    /\ exRet.result.Relations[Plan[1][1]] # <<>>
    /\ exRet.result.Relations[Plan[2][1]] # <<>>
    /\ ex.parentIDs # <<>>

(***************************************************************************)
(* C6. Empty frontier.                                                     *)
(***************************************************************************)
\* the database answered every query sent so far
C6_NoFailure == \A n \in 1..Len(sent) : sent[n].answer.ok

\* the parent list of a sent query is the literal NULL
C6_ParentsNull(sql) ==
    /\ \E i \in 1..(Len(sql) - 2) : sql[i] = " IN (" /\ sql[i + 1] = "NULL" /\ sql[i + 2] = ")"
    /\ \A i \in 1..Len(sql) : sql[i] # "$PARENT_IDS"

\* C6: when the main query returned no rows, every eager query sent has the literal
\* NULL for $PARENT_IDS and returns no rows; and unless the database or the context
\* fails a round-trip, every eager query of the plan is sent and Execute returns a
\* result, without error, whose relations are all empty.
C6_EmptyFrontier ==
    (Len(sent) >= 1 /\ sent[1].answer.ok /\ sent[1].answer.rows = <<>>) =>
        /\ \A n \in 2..Len(sent) :
              /\ C6_ParentsNull(sent[n].sql)
              /\ sent[n].answer.ok => sent[n].answer.rows = <<>>
        /\ (ex.pc = "done" /\ C6_NoFailure) =>
              /\ Len(sent) = Len(Plan) + 1
              /\ exRet.err = NoExecErr /\ ~exRet.result.isNil
              /\ DOMAIN exRet.result.Relations = {Plan[i][1] : i \in 1..Len(Plan)}
              /\ \A r \in DOMAIN exRet.result.Relations : exRet.result.Relations[r] = <<>>

\* an Execute whose main query returned nothing and that ran two eager queries
C6_Witness ==
    /\ exRet.done /\ exRet.err = NoExecErr
    /\ sent[1].answer.rows = <<>>
    /\ Len(Plan) >= 2 /\ Len(sent) = Len(Plan) + 1

(***************************************************************************)
(* C7. Abort without a partial result.                                     *)
(***************************************************************************)
\* C7: when a query fails (the database's error or the cancelled context), it is the
\* last query Execute sends, and Execute returns a nil result with an error, which
\* for an eager query names its relation; a result that is returned holds every
\* relation of the plan.
C7_AbortNoPartial ==
    /\ \A n \in 1..Len(sent) :
          ~sent[n].answer.ok =>
              /\ n = Len(sent)
              /\ exRet.done /\ exRet.result.isNil
              /\ IF n = 1
                 THEN exRet.err = ExecErr("main query failed", "")
                 ELSE exRet.err = ExecErr("eager query failed", Plan[n - 1][1])
    /\ exRet.done =>
          IF exRet.err = NoExecErr
          THEN /\ ~exRet.result.isNil
               /\ DOMAIN exRet.result.Relations = {Plan[i][1] : i \in 1..Len(Plan)}
          ELSE exRet.result.isNil

\* an eager query that failed after an earlier one had succeeded
C7_Witness ==
    /\ Len(sent) = 3 /\ Len(Plan) = 3
    /\ sent[2].answer.ok /\ sent[2].answer.rows # <<>>
    /\ ~sent[3].answer.ok
    /\ exRet.done /\ exRet.result.isNil

(***************************************************************************)
(* C8. Updating a primary key.                                             *)
(***************************************************************************)
\* C8: for an existing entity and a non-empty set of filters on existing fields, a
\* Build whose update set contains a primary-key field fails with ConstraintError
\* "primary_key", whatever else the update set contains.
C8_PrimaryKeyUpdate ==
    (/\ ubRet.call = "Build" /\ HasEntity(ub.entity)
     /\ DOMAIN ub.filters # {}
     /\ \A pf \in parseFilters(ub.filters) :
           DOMAIN pf # {} /\ DOMAIN pf \subseteq DOMAIN GetEntity(ub.entity).Fields
     /\ \E f \in DOMAIN ub.updates :
           f \in DOMAIN GetEntity(ub.entity).Fields /\ GetEntity(ub.entity).Fields[f].PrimaryKey)
    => (ubRet.err.type = "ConstraintError" /\ ubRet.err.detail = "primary_key")

(***************************************************************************)
(* C9. Required fields on insert.                                          *)
(***************************************************************************)
InitInsert ==
    /\ ib \in {NewInsertBuilder(e) : e \in Entities}
    /\ ibRet = NoRet
    /\ IdleDelete /\ IdleUpdate /\ IdleExec /\ IdleMerge /\ IdleRest

NextInsert ==
    \/ \E field \in InsertFields, value \in InsertValues : IB_Set(field, value)
    \/ IB_Build
    \/ IB_Exec

SpecInsert == InitInsert /\ [][NextInsert]_vars

\* the fields of the builder's entity that an insert must provide: not nullable, no
\* default, not the primary key
C9_Required(b) ==
    {f \in DOMAIN GetEntity(b.entity).Fields :
        LET fd == GetEntity(b.entity).Fields[f]
        IN  ~fd.Nullable /\ ~fd.HasDefault /\ ~fd.PrimaryKey}

\* every provided field passes the per-field checks of the insert
C9_ProvidedValid(b) ==
    \A f \in DOMAIN b.values : validateInsertField(GetEntity(b.entity), f, b.values[f]) = NoErr

\* C9 as stated: whenever a required field is absent, the insert fails with
\* NotNullError naming a missing field, whatever the provided fields are.
C9_RequiredAlways ==
    (/\ ibRet.call = "Build" /\ HasEntity(ib.entity)
     /\ C9_Required(ib) \ DOMAIN ib.values # {})
    => (ibRet.err.type = "NotNullError" /\ ibRet.err.field \in C9_Required(ib) \ DOMAIN ib.values)

\* C9 (amended): when every provided field passes its own checks, the insert fails
\* with NotNullError naming an absent required field whenever one is absent, and
\* passes when none is absent, the primary key being exempt; when a provided field
\* fails its own checks the insert fails with the error of such a field.
C9_RequiredFields ==
    (ibRet.call = "Build" /\ HasEntity(ib.entity)) =>
        IF C9_ProvidedValid(ib)
        THEN IF C9_Required(ib) \ DOMAIN ib.values # {}
             THEN /\ ibRet.err.type = "NotNullError"
                  /\ ibRet.err.field \in C9_Required(ib) \ DOMAIN ib.values
             ELSE ibRet.err = NoErr /\ ibRet.mutation.Type = "MutationInsert"
        ELSE \E f \in DOMAIN ib.values :
                /\ ibRet.err # NoErr
                /\ ibRet.err = validateInsertField(GetEntity(ib.entity), f, ib.values[f])

\* an insert that provides every required field and omits the primary key passes
C9_Witness ==
    /\ ibRet.call = "Build" /\ HasEntity(ib.entity)
    /\ F_id \notin DOMAIN ib.values
    /\ C9_Required(ib) \subseteq DOMAIN ib.values
    /\ ibRet.err = NoErr

(***************************************************************************)
(* C10. Provenance round-trip of a merge of two files.                     *)
(***************************************************************************)
InitMerge ==
    /\ mg \in {MergeInput(f, c) :
                  f \in UNION {[1..n -> FileNames] : n \in 0..MaxFiles},
                  c \in UNION {[1..n -> Contents] : n \in 0..MaxFiles}}
    /\ IdleDelete /\ IdleUpdate /\ IdleInsert /\ IdleExec /\ IdleRest

NextMerge ==
    \/ Merge

SpecMerge == InitMerge /\ [][NextMerge]_vars

\* the lines of a file: what lies between its newlines, a final newline ending the
\* last line rather than opening another
FileLines(content) ==
    LET lines == SplitLines(content)
    IN IF lines[Len(lines)] = <<>> THEN SubSeq(lines, 1, Len(lines) - 1) ELSE lines

\* the number of the merged-text line that holds the n-th line of the file named
\* filename: the file's lines follow the rule that closes its banner
MergedLineOf(content, filename, n) ==
    LET physical == SplitLines(content)
        from == CHOOSE p \in 1..Len(physical) : physical[p] = <<"// From: ", filename>>
    IN from + 1 + n

\* a merge of two files of different names has returned its result
C10_MergedTwo ==
    /\ mg.ret.done /\ mg.ret.err = NoMergeErr
    /\ Len(mg.filenames) = 2
    /\ mg.filenames[1] # mg.filenames[2]

\* C10: after merging files A and B in that order, the LineMap entry of the merged
\* line that holds the n-th line of B is (B, n), for every line of B and for all
\* contents of A and B.
C10_ProvenanceRoundTrip ==
    C10_MergedTwo =>
        \A n \in 1..Len(FileLines(mg.contents[2])) :
            LET m == MergedLineOf(mg.ret.result.Content, mg.filenames[2], n)
            IN /\ m \in DOMAIN mg.ret.result.LineMap
               /\ mg.ret.result.LineMap[m] = SourceLine(mg.filenames[2], n)

(***************************************************************************)
(* C11. Duplicate entities in the merged text.                             *)
(***************************************************************************)
InitValidate ==
    /\ vd \in {ValidateInput(c) :
                  c \in UNION {[1..n -> DeclChunks \cup OtherChunks] : n \in 0..MaxChunks}}
    /\ IdleQuery /\ IdleFields /\ IdleChain /\ IdleLoader /\ IdleRemap /\ IdleRegistry /\ IdleClassify /\ IdleMigrate /\ IdleEngine /\ IdleJournal
    /\ IdleDelete /\ IdleUpdate /\ IdleInsert /\ IdleExec /\ IdleMerge

NextValidate ==
    \/ Validate

SpecValidate == InitValidate /\ [][NextValidate]_vars

\* how many pieces of the text declare the entity of this name
C11_Declared(name) ==
    Cardinality({i \in 1..Len(vd.chunks) : vd.chunks[i].decl /\ vd.chunks[i].name = name})

\* the names declared more than once
C11_Duplicated == {n \in EntityNames : C11_Declared(n) > 1}

\* the text that names a duplicated entity and how often it appears
C11_Entry(name) == name \o <<" (appears ">> \o Itoa(C11_Declared(name)) \o <<" times)">>

\* C11: when an entity name is declared more than once in the merged text, Validate
\* fails with one error that lists every duplicated name with its number of
\* occurrences; when every name is declared once and there is at least one, it
\* returns no error.
C11_DuplicateEntities ==
    vd.done =>
        IF C11_Duplicated # {}
        THEN /\ ~vd.err.isNil
             /\ \E o \in Orders(C11_Duplicated) :
                   vd.err.msg = <<"duplicate entities found: ">>
                                \o Join([i \in 1..Len(o) |-> C11_Entry(o[i])], <<", ">>)
                                \o <<"\n\nEntity names must be unique across all schema files. ",
                                     "Define each entity only once.">>
        ELSE (\E n \in EntityNames : C11_Declared(n) = 1) => vd.err.isNil

\* a text in which two names are declared twice each
C11_Witness ==
    /\ vd.done /\ ~vd.err.isNil
    /\ Cardinality(C11_Duplicated) = 2

(***************************************************************************)
(* C12. Query builder snapshots.                                           *)
(***************************************************************************)
InitQuery ==
    /\ IdleQuery /\ IdleValidate /\ IdleFields /\ IdleChain /\ IdleLoader /\ IdleRemap /\ IdleRegistry /\ IdleClassify /\ IdleMigrate /\ IdleEngine /\ IdleJournal
    /\ IdleDelete /\ IdleUpdate /\ IdleInsert /\ IdleExec /\ IdleMerge

NextQuery ==
    \/ Q_Query
    \/ \E r \in HeldRefs, field \in QueryFields, op \in QueryOps, value \in QueryValues :
          Q_Filter(r, field, op, value)
    \/ \E r \in HeldRefs, path \in QueryIncludes : Q_Include(r, path)
    \/ \E r \in HeldRefs, field \in QueryFields, direction \in Directions :
          Q_OrderBy(r, field, direction)
    \/ \E r \in HeldRefs, n \in Limits : Q_Limit(r, n)
    \/ \E r \in HeldRefs, n \in Limits : Q_Offset(r, n)

SpecQuery == InitQuery /\ [][NextQuery]_vars

\* C12: a QueryBuilder returned by an earlier call still describes the filters,
\* includes, ordering, limit and offset it had when it was returned, whatever builder
\* calls were made since.
C12_Snapshots ==
    \A i \in 1..Len(qs.held) : qs.heap[qs.held[i].ref] = qs.held[i].then

(***************************************************************************)
(* C13. Validation precedes rendering, in the three mutation builders.     *)
(***************************************************************************)
\* a caller that works with one mutation builder, of any of the three kinds
InitBuilders ==
    \/ InitDelete
    \/ InitUpdate
    \/ InitInsert

\* the filters the caller gives a DeleteBuilder or an UpdateBuilder at most
MaxBuildFilters == 1

\* the fields the caller sets on an UpdateBuilder at most
MaxBuildSets == 1

NextBuilders ==
    \/ /\ IdleUpdate /\ IdleInsert /\ NextDelete
       /\ Cardinality(DOMAIN db'.filters) <= MaxBuildFilters
    \/ /\ IdleDelete /\ IdleInsert /\ NextUpdate
       /\ Cardinality(DOMAIN ub'.filters) <= MaxBuildFilters
       /\ Cardinality(DOMAIN ub'.updates) <= MaxBuildSets
    \/ IdleDelete /\ IdleUpdate /\ NextInsert

SpecBuilders == InitBuilders /\ [][NextBuilders]_vars

\* the step of one builder: its SQL changes only in a call whose validator returned
\* no error; a Build that returns an error returns the validator's, returns no
\* Mutation and leaves the SQL as it was; a Build that returns no error passed the
\* validator and has rendered SQL
C13_Step(sql, sqlAfter, retAfter, validation) ==
    /\ sqlAfter # sql => (retAfter.err = NoErr /\ NoErr \in validation)
    /\ (retAfter.call = "Build" /\ retAfter.err # NoErr) =>
          /\ retAfter.err \in validation
          /\ retAfter.mutation = NoMutation
          /\ sqlAfter = sql
    /\ (retAfter.call = "Build" /\ retAfter.err = NoErr) =>
          /\ sqlAfter # <<>>
          /\ retAfter.mutation # NoMutation

\* C13: in InsertBuilder, UpdateBuilder and DeleteBuilder, Build renders SQL only
\* after the matching validator returned no error; when validation fails Build
\* returns that error and no Mutation, and the builder's sql field is left as it was.
C13_ValidateThenRender ==
    [][/\ <<ib, ibRet>>' # <<ib, ibRet>> =>
              C13_Step(ib.sql, ib'.sql, ibRet', ValidateInsertInput(ib.entity, ib.values))
       /\ <<ub, ubRet>>' # <<ub, ubRet>> =>
              C13_Step(ub.sql, ub'.sql, ubRet',
                       UNION {ValidateUpdateInput(ub.entity, pf, ub.updates) :
                                 pf \in parseFilters(ub.filters)})
       /\ <<db, dbRet>>' # <<db, dbRet>> =>
              C13_Step(db.sql, db'.sql, dbRet',
                       UNION {ValidateDeleteInput(db.entity, pf, db.forceDeleteAll) :
                                 pf \in parseFilters(db.filters)})]_vars

\* a Build that failed on a builder that had no SQL yet
C13_Witness ==
    /\ ubRet.call = "Build" /\ ubRet.err # NoErr
    /\ DOMAIN ub.filters # {} /\ DOMAIN ub.updates # {}
    /\ ub.sql = <<>>

(***************************************************************************)
(* C14. The declared-type check of ValidateInsertInput.                    *)
(***************************************************************************)
InitFields ==
    /\ fc \in {FieldCheck(e, f, v) : e \in FieldEntities, f \in FieldNames, v \in FieldValueSet}
    /\ IdleValidate /\ IdleQuery /\ IdleChain /\ IdleLoader /\ IdleRemap /\ IdleRegistry /\ IdleClassify /\ IdleMigrate /\ IdleEngine /\ IdleJournal
    /\ IdleDelete /\ IdleUpdate /\ IdleInsert /\ IdleExec /\ IdleMerge

NextFields == ValidateField

SpecFields == InitFields /\ [][NextFields]_vars

\* the Go values that satisfy a declared field type
C14_Satisfies(kind, value) ==
    CASE kind = "UUID"      -> value.kind = "string" /\ isValidUUID(value.s)
      [] kind = "String"    -> value.kind = "string"
      [] kind = "Int"       -> value.kind = "int"
      [] kind = "Decimal"   -> value.kind \in {"float64", "int"}
      [] kind = "Bool"      -> value.kind = "bool"
      [] kind = "Timestamp" -> value.kind \in {"time.Time", "string"}

\* the provided field is a field of the entity
C14_Known == HasEntity(fc.entity) /\ fc.field \in DOMAIN GetEntity(fc.entity).Fields

\* C14: ValidateInsertInput rejects every provided non-null value that does not
\* satisfy the declared type of its field, for each of the six field types.
C14_DeclaredType ==
    (/\ fc.done /\ C14_Known /\ fc.value # NilV
     /\ ~C14_Satisfies(GetEntity(fc.entity).Fields[fc.field].Kind, fc.value))
        => NoErr \notin fc.insert

(***************************************************************************)
(* C15. The email heuristic of ValidateInsertInput.                        *)
(***************************************************************************)
\* a string value was provided for a field of the entity whose name contains "email"
C15_EmailField ==
    /\ fc.done /\ C14_Known
    /\ Contains(ToLower(fc.field), F_email)
    /\ fc.value.kind = "string"

\* the format error on the provided field
C15_FormatError == FieldFormatError(fc.field, "email")

\* C15: for every field whose name contains "email" in any letter case, a provided
\* string value that does not match the email-shaped pattern makes
\* ValidateInsertInput fail with a format error on that field.
C15_EmailHeuristic ==
    C15_EmailField =>
        IF isValidEmail(fc.value.s)
        THEN C15_FormatError \notin fc.insert
        ELSE fc.insert = {C15_FormatError}

\* C15 of the string values that are not empty: the empty string is let through
C15_NonEmpty ==
    (C15_EmailField /\ fc.value.s # <<>>) =>
        IF isValidEmail(fc.value.s)
        THEN C15_FormatError \notin fc.insert
        ELSE fc.insert = {C15_FormatError}

\* a text with two @ was provided for the field myEMAIL
C15_Witness ==
    /\ C15_EmailField
    /\ fc.field = F_myEMAIL /\ fc.value = StrV(T_twoat)
    /\ fc.insert = {C15_FormatError}

(***************************************************************************)
(* C16. Insert and update check a value the same way.                      *)
(***************************************************************************)
\* what the per-field checks of ValidateInsertInput say of the provided value
C16_InsertCheck == validateInsertField(GetEntity(fc.entity), fc.field, fc.value)

\* C16: for every entity field that is not a primary key and every value,
\* ValidateUpdateInput with a non-empty valid filter set accepts the value exactly
\* when the per-field checks of ValidateInsertInput accept it, and rejects it with
\* the same kind of error otherwise.
C16_Parity ==
    (/\ fc.done /\ C14_Known
     /\ ~GetEntity(fc.entity).Fields[fc.field].PrimaryKey)
        => /\ (NoErr \in fc.update) <=> (C16_InsertCheck = NoErr)
           /\ \A e \in fc.update : e.type = C16_InsertCheck.type

(***************************************************************************)
(* C17. The last Set of a field and the last Filter of a field and         *)
(* operator win.                                                           *)
(***************************************************************************)
InitChain ==
    /\ IdleChain
    /\ IdleValidate /\ IdleQuery /\ IdleFields /\ IdleLoader /\ IdleRemap /\ IdleRegistry /\ IdleClassify /\ IdleMigrate /\ IdleEngine /\ IdleJournal
    /\ IdleDelete /\ IdleUpdate /\ IdleInsert /\ IdleExec /\ IdleMerge

NextChain ==
    \/ \E field \in ChainFields, value \in ChainValues : Chain_InsertSet(field, value)
    \/ \E field \in ChainFields, value \in ChainValues : Chain_UpdateSet(field, value)
    \/ \E field \in ChainFields, op \in ChainOps, value \in ChainValues :
          Chain_UpdateFilter(field, op, value)

SpecChain == InitChain /\ [][NextChain]_vars

\* the positions of the calls of a method with a field and an operator
C17_Calls(method, field, op) ==
    {i \in 1..Len(ch.log) :
        ch.log[i].method = method /\ ch.log[i].field = field /\ ch.log[i].op = op}

\* the most recent of some calls
C17_Latest(calls) == CHOOSE i \in calls : \A j \in calls : j <= i

\* a map holds, under the key of each field (and operator) a method was called with,
\* the value of the most recent such call, and holds no other key
C17_LastWins(map, method, ops, key) ==
    /\ \A field \in ChainFields, op \in ops :
          IF C17_Calls(method, field, op) = {}
          THEN key[field, op] \notin DOMAIN map
          ELSE /\ key[field, op] \in DOMAIN map
               /\ map[key[field, op]] = ch.log[C17_Latest(C17_Calls(method, field, op))].value
    /\ Cardinality(DOMAIN map) =
          Cardinality({<<field, op>> \in ChainFields \X ops : C17_Calls(method, field, op) # {}})

\* the key of a Set is the field; the key of a Filter is the field and the operator
C17_FieldKey == [field \in ChainFields, op \in {<<>>} |-> field]

C17_FilterKey == [field \in ChainFields, op \in ChainOps |-> FilterKey(field, op)]

\* C17: after any sequence of Set calls on an InsertBuilder or UpdateBuilder the value
\* stored for a field is that of the most recent Set for the field and each field is
\* stored once; a repeated Filter with the same field and operator replaces the
\* earlier value instead of adding a second condition.
C17_LastWriteWins ==
    /\ C17_LastWins(ch.ib.values, "InsertBuilder.Set", {<<>>}, C17_FieldKey)
    /\ C17_LastWins(ch.ub.updates, "UpdateBuilder.Set", {<<>>}, C17_FieldKey)
    /\ C17_LastWins(ch.ub.filters, "UpdateBuilder.Filter", ChainOps, C17_FilterKey)

\* a Set of name, then a Filter repeated with another value: one condition is kept
C17_Witness ==
    /\ Len(ch.log) = 3
    /\ ch.log[1] = ChainCall("InsertBuilder.Set", F_name, <<>>, StrV(T_ana))
    /\ C17_Calls("UpdateBuilder.Filter", F_email, <<"e", "q">>) = {2, 3}
    /\ ch.log[2].value # ch.log[3].value
    /\ Cardinality(DOMAIN ch.ub.filters) = 1

(***************************************************************************)
(* C18. The error outcomes of QueryBuilder.ToSQL.                          *)
(***************************************************************************)
\* the Schema Compiler reports an error to this query
C18_CompilerFails == qb.engine.schema /\ qb.engine.compiler.code # 0

\* the error ToSQL is to return: for a compiler error, one that wraps the message of
\* the compiler as the compiler gave it
C18_Error ==
    IF ~qb.engine.schema
    THEN GoErr("no schema loaded", "")
    ELSE GoErr("SQL generation failed",
               IF qb.engine.compiler.text # "" THEN qb.engine.compiler.text
               ELSE "SQL generation failed with code 1")

\* C18: ToSQL returns an error and no GeneratedSQL when the engine has no schema
\* loaded, and when the Schema Compiler reports an error it returns that error with
\* the compiler's message verbatim; in both cases Execute sends nothing to the
\* database and returns the error of ToSQL.
C18_CompileErrors ==
    (~qb.engine.schema \/ C18_CompilerFails) =>
        /\ \A g \in ToSQL(qb) : ~g.ok /\ g.err = C18_Error
        /\ sent = <<>>
        /\ exRet.done =>
              /\ exRet.result = NilResult
              /\ exRet.err \in {ExecErrOf("SQL generation failed", C18_Error),
                                ExecErr("not connected to database", "")}

\* Execute has returned the error of a compiler that reported a message
C18_Witness ==
    /\ C18_CompilerFails /\ qb.engine.compiler.text \in CompilerMessages
    /\ conn /\ exRet.done
    /\ exRet.err.cause.wrapped = qb.engine.compiler.text

(***************************************************************************)
(* C19. LoadAll keeps names and texts paired.                              *)
(***************************************************************************)
InitLoader ==
    /\ ld \in {FileLoader(p) : p \in UNION {[1..n -> Dirs] : n \in 0..MaxPaths}}
    /\ IdleValidate /\ IdleQuery /\ IdleFields /\ IdleChain /\ IdleRemap /\ IdleRegistry /\ IdleClassify /\ IdleMigrate /\ IdleEngine /\ IdleJournal
    /\ IdleDelete /\ IdleUpdate /\ IdleInsert /\ IdleExec /\ IdleMerge

NextLoader == LoadAll

SpecLoader == InitLoader /\ [][NextLoader]_vars

\* the position of an entry name in the order of sort.Strings
C19_Rank(name) == CHOOSE k \in DOMAIN DirEntries : DirEntries[k] = name

\* text is what was read from a file of that name in one of the schema paths
C19_TextOf(name, text) ==
    \E i \in 1..Len(ld.schemaPaths) :
        /\ ld.schemaPaths[i].exists /\ name \in ld.schemaPaths[i].entries
        /\ text = FileText(i, name)

\* C19: LoadAll returns the file names in sorted order and, for every index i,
\* contents[i] is the text of the file named filenames[i], for any number of schema
\* paths and files.
C19_Paired ==
    (ld.ret.done /\ ld.ret.err = NoLoadErr) =>
        /\ Len(ld.ret.contents) = Len(ld.ret.filenames)
        /\ \A i \in 1..(Len(ld.ret.filenames) - 1) :
              C19_Rank(ld.ret.filenames[i]) <= C19_Rank(ld.ret.filenames[i + 1])
        /\ \A i \in 1..Len(ld.ret.filenames) :
              C19_TextOf(ld.ret.filenames[i], ld.ret.contents[i])

(***************************************************************************)
(* C20. The line map of Merge, against the merged text.                    *)
(***************************************************************************)
\* the lines of the merged text
C20_Physical == SplitLines(mg.ret.result.Content)

\* the numbers of the merged lines that name a file
C20_FromLines ==
    {p \in 1..Len(C20_Physical) :
        Len(C20_Physical[p]) > 0 /\ C20_Physical[p][1] = "// From: "}

\* the number of the merged line that names the i-th file
C20_FromLine(i) ==
    CHOOSE p \in C20_FromLines : Cardinality({q \in C20_FromLines : q < p}) = i - 1

\* the content lines: the n-th line of the i-th file follows the rule that closes the
\* banner of the file
C20_ContentLines ==
    {<<i, n>> \in (1..Len(mg.filenames)) \X (1..(MaxContentLen + 1)) :
        n <= Len(FileLines(mg.contents[i]))}

C20_MergedLine(i, n) == C20_FromLine(i) + 1 + n

\* C20: the keys of LineMap are exactly the merged-text line numbers that hold a
\* content line of some input file, each content line has its one entry (f, n), and
\* the text at merged line m is line n of file f whenever LineMap[m] = (f, n).
C20_LineMap ==
    (mg.ret.done /\ mg.ret.err = NoMergeErr) =>
        /\ Cardinality(C20_FromLines) = Len(mg.filenames)
        /\ DOMAIN mg.ret.result.LineMap =
              {C20_MergedLine(c[1], c[2]) : c \in C20_ContentLines}
        /\ \A c \in C20_ContentLines :
              LET m == C20_MergedLine(c[1], c[2])
              IN /\ m \in DOMAIN mg.ret.result.LineMap
                 /\ mg.ret.result.LineMap[m] = SourceLine(mg.filenames[c[1]], c[2])
                 /\ m <= Len(C20_Physical)
                 /\ C20_Physical[m] = FileLines(mg.contents[c[1]])[c[2]]

(***************************************************************************)
(* C21. Error lines are mapped back to the source files.                   *)
(***************************************************************************)
\* most line numbers a compiler error names in the model
MaxErrLine == 20

InitRemap ==
    /\ em \in {Remap(l, ErrorMessage(l, f), m) :
                  l \in 0..MaxErrLine, f \in {"line", "arrow"}, m \in RemapLineMaps}
              \cup {Remap(NoLine, ErrorMessage(0, "none"), m) : m \in RemapLineMaps}
    /\ IdleValidate /\ IdleQuery /\ IdleFields /\ IdleChain /\ IdleLoader /\ IdleRegistry /\ IdleClassify /\ IdleMigrate /\ IdleEngine /\ IdleJournal
    /\ IdleDelete /\ IdleUpdate /\ IdleInsert /\ IdleExec /\ IdleMerge

NextRemap == MapError

SpecRemap == InitRemap /\ [][NextRemap]_vars

\* the distances in 1..5 at which the line map has a key before or after the line
C21_Distances ==
    {d \in 1..MaxOffset : (em.line - d) \in DOMAIN em.lineMap \/ (em.line + d) \in DOMAIN em.lineMap}

C21_Nearest == CHOOSE d \in C21_Distances : \A e \in C21_Distances : d <= e

\* the text returned for a line map entry
C21_Entry(m) == sourceInfoOf(em.lineMap[m].File, em.lineMap[m].LineNumber)

\* the message is surfaced as it was
C21_Unmapped == em.sourceInfo = NoSourceInfo /\ em.surfaced = em.errMsg

InitRegistry ==
    /\ IdleRegistry
    /\ IdleValidate /\ IdleQuery /\ IdleFields /\ IdleChain /\ IdleLoader /\ IdleRemap /\ IdleClassify /\ IdleMigrate /\ IdleEngine /\ IdleJournal
    /\ IdleDelete /\ IdleUpdate /\ IdleInsert /\ IdleExec /\ IdleMerge

NextRegistry ==
    \/ \E factory \in Factories : RegisterMutationFactory(factory)
    \/ GetMutationFactory

SpecRegistry == InitRegistry /\ [][NextRegistry]_vars

\* the registrations among the first n calls: all of them, and those of a factory
\* that is not nil
C22_Registrations(n) == {i \in 1..n : rg.calls[i].call = "Register"}

C22_NonNil(n) == {i \in C22_Registrations(n) : rg.calls[i].arg # NilFactory}

C22_First(regs) == CHOOSE i \in regs : \A j \in regs : i <= j

\* the calls behave as a registry in which the registrations regs count
C22_Registry(regs(_)) ==
    \A i \in 1..Len(rg.calls) :
        IF rg.calls[i].call = "Register"
        THEN rg.calls[i].panicked <=> regs(i - 1) # {}
        ELSE IF regs(i - 1) = {}
             THEN rg.calls[i].panicked
             ELSE /\ ~rg.calls[i].panicked
                  /\ rg.calls[i].ret = rg.calls[C22_First(regs(i - 1))].arg

\* C22 as stated: the first registration succeeds, every later registration panics
\* and leaves the registered factory unchanged, getMutationFactory panics while
\* nothing is registered, and after a registration it returns the factory registered
\* first.
C22_FirstWins == C22_Registry(C22_Registrations)

\* C22: the same, where a registration is a RegisterMutationFactory call with a
\* factory that is not nil; a call with a nil factory panics after such a registration
\* and otherwise registers nothing.
C22_FirstNonNilWins ==
    /\ C22_Registry(C22_NonNil)
    /\ rg.mutationFactory =
          IF C22_NonNil(Len(rg.calls)) = {} THEN NilFactory
          ELSE rg.calls[C22_First(C22_NonNil(Len(rg.calls)))].arg

\* a factory was registered, a second registration panicked, and a later
\* getMutationFactory returned the first
C22_Witness ==
    /\ Len(rg.calls) = 3
    /\ rg.calls[1].call = "Register" /\ rg.calls[1].arg = "factory 1"
    /\ rg.calls[2].call = "Register" /\ rg.calls[2].arg = "factory 2" /\ rg.calls[2].panicked
    /\ rg.calls[3].call = "Get" /\ rg.calls[3].ret = "factory 1"

(***************************************************************************)
(* C23. The classification of errors.                                      *)
(***************************************************************************)
InitClassify ==
    /\ cl \in {Classified(Err(t, d, f)) : t \in ErrorTypes, d \in ErrorDetails, f \in ErrorFields}
    /\ IdleValidate /\ IdleQuery /\ IdleFields /\ IdleChain /\ IdleLoader /\ IdleRemap /\ IdleRegistry /\ IdleMigrate /\ IdleEngine /\ IdleJournal
    /\ IdleDelete /\ IdleUpdate /\ IdleInsert /\ IdleExec /\ IdleMerge

NextClassify == Classify

SpecClassify == InitClassify /\ [][NextClassify]_vars

\* the types the constraint class is said to hold
C23_ConstraintTypes ==
    {"ConstraintError", "UniqueConstraintError", "NotNullError", "ForeignKeyError",
     "ForeignKeyConstraintError"}

\* C23: IsSafetyError is true exactly for a SafetyError, IsConstraintError is true
\* for a ConstraintError, UniqueConstraintError, NotNullError, ForeignKeyError and
\* ForeignKeyConstraintError and false for every other error, and no error is in
\* both classes.
C23_Classes ==
    cl.done =>
        /\ cl.safety <=> cl.err.type = "SafetyError"
        /\ cl.constraint <=> cl.err.type \in C23_ConstraintTypes
        /\ ~(cl.safety /\ cl.constraint)

(***************************************************************************)
(* C24. The migrate command applies only under --apply without --dry-run.  *)
(***************************************************************************)
InitMigrate ==
    /\ mr \in {NotRun(MigrateInput(d, a, c, s, m, f)) :
                  d \in BOOLEAN, a \in BOOLEAN, c \in BOOLEAN, s \in StateFiles,
                  m \in Manifests, f \in Failures}
    /\ IdleValidate /\ IdleQuery /\ IdleFields /\ IdleChain /\ IdleLoader /\ IdleRemap /\ IdleRegistry /\ IdleClassify /\ IdleEngine /\ IdleJournal
    /\ IdleDelete /\ IdleUpdate /\ IdleInsert /\ IdleExec /\ IdleMerge

NextMigrate == Migrate

SpecMigrate == InitMigrate /\ [][NextMigrate]_vars

C24_Applying == mr.in.applyMigration /\ ~mr.in.dryRun

\* C24: the migration SQL is executed and the state file and the manifest are written
\* only when --apply is set and --dry-run is not; otherwise the command ends after
\* displaying the SQL, without connecting to the database and without changing the
\* state or the manifest.
C24_DryRunSafe ==
    mr.done =>
        /\ (mr.executed \/ mr.connected \/ mr.state # mr.in.state
               \/ mr.manifest # mr.in.manifest) => C24_Applying
        /\ (~C24_Applying /\ mr.displayed) => mr.err = ""

\* --apply together with --dry-run: the SQL was displayed and nothing was done
C24_Witness ==
    /\ mr.done /\ mr.in.applyMigration /\ mr.in.dryRun /\ mr.in.fails = "none"
    /\ mr.displayed /\ ~mr.connected /\ ~mr.executed
    /\ mr.state = mr.in.state /\ mr.manifest = mr.in.manifest

(***************************************************************************)
(* C25. Exec and the SQL of an earlier Build.                              *)
(***************************************************************************)
\* the builder as a nil-returning Exec left it: its values and filters pass the
\* validator and its SQL is a rendering of them
C25_Fresh(ret, sql, validation, renderings) ==
    (ret.call = "Exec" /\ ret.err = NoErr) => (NoErr \in validation /\ sql \in renderings)

\* C25: over any sequence of Set, Filter, Build and Exec calls on one mutation
\* builder, Exec returns nil only if the builder's current values and filters pass
\* validation and the SQL it uses was rendered from the state the builder has at the
\* time of Exec.
C25_NoStaleSQL ==
    /\ C25_Fresh(ibRet, ib.sql, ValidateInsertInput(ib.entity, ib.values),
                 {generateInsertSQL(ib, o) : o \in Orders(DOMAIN ib.values)})
    /\ C25_Fresh(ubRet, ub.sql,
                 UNION {ValidateUpdateInput(ub.entity, pf, ub.updates) :
                           pf \in parseFilters(ub.filters)},
                 {generateUpdateSQL(ub, so, fo) :
                     so \in Orders(DOMAIN ub.updates), fo \in Orders(DOMAIN ub.filters)})
    /\ C25_Fresh(dbRet, db.sql,
                 UNION {ValidateDeleteInput(db.entity, pf, db.forceDeleteAll) :
                           pf \in parseFilters(db.filters)},
                 {generateDeleteSQL(db, o) : o \in Orders(DOMAIN db.filters)})

(***************************************************************************)
(* C26. The WHERE clause of a rendered UPDATE or DELETE.                   *)
(***************************************************************************)
\* what a statement holds after its WHERE keyword, up to RETURNING
C26_Conditions(sql) ==
    LET w == CHOOSE i \in 1..Len(sql) : sql[i] = " WHERE "
        body == SubSeq(sql, w + 1, Len(sql))
    IN  IF body # <<>> /\ Last(body) = " RETURNING *" THEN Front(body) ELSE body

\* the statement has no WHERE clause, or one that holds at least one condition
\* and has a condition on each side of every AND
C26_WellFormed(sql) ==
    (\E i \in 1..Len(sql) : sql[i] = " WHERE ") =>
        LET c == C26_Conditions(sql)
        IN  /\ c # <<>>
            /\ c[1] # " AND " /\ c[Len(c)] # " AND "
            /\ \A i \in 1..(Len(c) - 1) : ~(c[i] = " AND " /\ c[i + 1] = " AND ")

\* C26: every UPDATE or DELETE statement rendered by a successful Build either has a
\* WHERE clause with at least one condition, the conditions joined by AND, or has no
\* WHERE clause at all; a DeleteBuilder built with ForceDeleteAll and no filters
\* renders a valid unfiltered DELETE statement.
C26_WhereClause == C26_WellFormed(db.sql) /\ C26_WellFormed(ub.sql)

(***************************************************************************)
(* C27. The operator of a filter in the rendered condition.                *)
(***************************************************************************)
\* the comparison an operator names
C27_Comparison(op) ==
    CASE op = <<"e", "q">> -> "="
      [] op = <<"n", "e", "q">> -> "<>"
      [] op = <<"g", "t">> -> ">"
      [] op = <<"g", "t", "e">> -> ">="
      [] op = <<"l", "t">> -> "<"
      [] op = <<"l", "t", "e">> -> "<="
      [] op = <<"l", "i", "k", "e">> -> " LIKE "
      [] op = <<"i", "n">> -> " IN "
      [] OTHER -> "none"

\* the statement holds the condition `"field" comparison $n`
C27_Holds(sql, field, comparison) ==
    LET c == <<"\"">> \o field \o <<"\"", comparison, "$">>
    IN  \E i \in 1..Len(sql) :
            i + Len(c) - 1 <= Len(sql) /\ SubSeq(sql, i, i + Len(c) - 1) = c

\* a Build that succeeded has rendered every filter that names an operator with
\* the comparison of that operator
C27_Rendered(ret, sql, filters) ==
    (ret.call = "Build" /\ ret.err = NoErr) =>
        \A key \in DOMAIN filters :
            LET op == SubSeq(key, Len(SplitHead(key, ":")) + 2, Len(key))
            IN  C27_Comparison(op) # "none" =>
                    C27_Holds(sql, SplitHead(key, ":"), C27_Comparison(op))

\* C27: for every filter added with Filter(field, op, value) on an UpdateBuilder or a
\* DeleteBuilder, the condition rendered for it in the WHERE clause uses the comparison
\* named by op (eq, neq, gt, gte, lt, lte, like, in); two filters on the same field
\* with different operators are both rendered, each with its own operator.
C27_OperatorHonoured ==
    /\ C27_Rendered(dbRet, db.sql, db.filters)
    /\ C27_Rendered(ubRet, ub.sql, ub.filters)

(***************************************************************************)
(* C28. The fields named by the filters of a built UPDATE or DELETE.       *)
(***************************************************************************)
\* a Build that succeeded had only filters on fields of the entity, and a Build of
\* a known entity with a filter on another field failed with UnknownFieldError
C28_Checked(ret, entity, filters) ==
    LET columns == {SplitHead(key, ":") : key \in DOMAIN filters}
        unknown == {c \in columns : c \notin DOMAIN GetEntity(entity).Fields}
    IN  (ret.call = "Build" /\ HasEntity(entity)) =>
            /\ ret.err = NoErr => unknown = {}
            /\ unknown # {} => ret.err.type = "UnknownFieldError"

\* C28: every column named in the WHERE clause of an UPDATE or DELETE rendered by a
\* successful Build is a field of the target entity; a Build whose filter names a
\* field that the entity does not have fails with UnknownFieldError, for
\* UpdateBuilder and for DeleteBuilder alike.
C28_FilterFieldsExist ==
    /\ C28_Checked(ubRet, ub.entity, ub.filters)
    /\ C28_Checked(dbRet, db.entity, db.filters)

(***************************************************************************)
(* C29. The connection state of an Engine and Execute.                     *)
(***************************************************************************)
InitEngine ==
    /\ IdleEngine
    /\ IdleValidate /\ IdleQuery /\ IdleFields /\ IdleChain /\ IdleLoader /\ IdleRemap /\ IdleRegistry /\ IdleClassify /\ IdleMigrate /\ IdleJournal
    /\ IdleDelete /\ IdleUpdate /\ IdleInsert /\ IdleExec /\ IdleMerge

NextEngine ==
    \/ \E ok \in BOOLEAN : Connect(ok)
    \/ Close
    \/ \E generated \in BOOLEAN : Execute(generated)

SpecEngine == InitEngine /\ [][NextEngine]_vars

\* the Connect call that made connector c: the c-th Connect call
C29_MadeBy(c) ==
    CHOOSE j \in 1..Len(en.calls) :
        /\ en.calls[j].call = "Connect"
        /\ Cardinality({k \in 1..j : en.calls[k].call = "Connect"}) = c

\* C29: over any sequence of Engine.Connect (succeeding or failing) and Engine.Close
\* calls, whenever IsConnected() is false Execute returns an error without sending a
\* query, and a pool opened by an earlier successful Connect is not used for queries
\* after a later Connect failed or after Close.
C29_ConnectionState ==
    \A i \in 1..Len(en.calls) :
        en.calls[i].call = "Execute" =>
            /\ ~en.calls[i].connected => (en.calls[i].err # "" /\ en.calls[i].sentOn = NilPtr)
            /\ en.calls[i].sentOn # NilPtr =>
                  \A k \in (C29_MadeBy(en.calls[i].sentOn) + 1)..(i - 1) :
                      /\ en.calls[k].call # "Close"
                      /\ ~(en.calls[k].call = "Connect" /\ en.calls[k].err # "")

(***************************************************************************)
(* C30. Concurrent journal writes.                                         *)
(***************************************************************************)
InitJournal ==
    /\ jl \in {Journal(files) : files \in JournalFiles}
    /\ IdleValidate /\ IdleQuery /\ IdleFields /\ IdleChain /\ IdleLoader /\ IdleRemap /\ IdleRegistry /\ IdleClassify /\ IdleMigrate /\ IdleEngine
    /\ IdleDelete /\ IdleUpdate /\ IdleInsert /\ IdleExec /\ IdleMerge

NextJournal ==
    \/ \E p \in Callers, c \in JournalCalls : Call(p, c)
    \/ \E p \in Callers : LoggerStep(p)

SpecJournal == InitJournal /\ [][NextJournal]_vars

\* a goroutine that can take a step takes it: the scheduler runs every runnable
\* goroutine, and a mutex that stays free is given to a goroutine waiting for it
SpecJournalFair == SpecJournal /\ \A p \in Callers : WF_vars(LoggerStep(p))

\* the lines of the day's log file written by caller p, and those of an action
C30_LinesBy(p) == {i \in 1..Len(jl.lines) : jl.lines[i].by = p}

C30_LinesOf(a) == {i \in 1..Len(jl.lines) : jl.lines[i].action = a}

\* the callers whose line is written and not yet counted in the index
C30_Uncounted(a) ==
    {p \in Callers : jl.pc[p] \in {"lockIndex", "read", "save"} /\ jl.call[p][2] = a}

RECURSIVE C30_Sum(_, _)
C30_Sum(f, S) == IF S = {} THEN 0 ELSE LET a == CHOOSE a \in S : TRUE IN f[a] + C30_Sum(f, S \ {a})

\* every call that is past its write has appended one line, and the counters of the
\* day's index are the numbers of lines of the calls that are past their index update
C30_Counted ==
    /\ \A p \in Callers :
          Cardinality(C30_LinesBy(p)) =
              IF jl.pc[p] \in {"idle", "lock", "write"} THEN 0 ELSE 1
    /\ LET pending(a) == Cardinality(C30_Uncounted(a))
           counted == Len(jl.lines) - C30_Sum([a \in JournalActions |-> pending(a)],
                                              JournalActions)
       IN  counted > 0 =>
              /\ jl.index.date = "today"
              /\ jl.index.entries = counted
              /\ \A a \in JournalActions :
                    jl.index.by_action[a] = Cardinality(C30_LinesOf(a)) - pending(a)
              /\ C30_Sum(jl.index.by_action, JournalActions) = jl.index.entries

\* C30: for any interleaving of concurrent Log, LogSchema, LogError and LogMigration
\* calls on one Logger during one day with no I/O error, each call appends exactly
\* one line to the day's log file and increments "entries" and the "by_action"
\* counter of its action by exactly one, so that "entries" equals the number of
\* lines appended and the per-action counts sum to it; no call blocks forever.
C30_Serialized ==
    /\ []C30_Counted
    /\ \A p \in Callers : (jl.pc[p] # "idle") ~> (jl.pc[p] = "done")

\* both callers have returned after logging the same action, the one that called
\* LogError first, on top of the index of the day before
C30_Witness ==
    /\ \A p \in Callers : jl.pc[p] = "done"
    /\ jl.call[1][1] = "LogMigration" /\ jl.call[2][1] = "LogError"
    /\ Len(jl.lines) = 2 /\ jl.lines[1].by = 2 /\ jl.lines[2].by = 1
    /\ jl.index.entries = 2 /\ jl.index.by_action["migrate"] = 2

=============================================================================
